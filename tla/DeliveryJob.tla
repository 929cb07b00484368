----------------------------- MODULE DeliveryJob -----------------------------
(***************************************************************************)
(* A row of delivery_jobs and the statements of                            *)
(* src/features/delivery/repository.rs that change it.                     *)
(*                                                                         *)
(*   status    "none" before the INSERT, then the column's value           *)
(*   attempt   the column; counts recorded outcomes                        *)
(*   enqueued  enqueued_at IS NOT NULL                                     *)
(*   due       retry_after <= NOW() (meaningful while retrying)            *)
(*                                                                         *)
(* No UPDATE of the repository except reset_for_retry looks at the status  *)
(* it overwrites.                                                          *)
(***************************************************************************)
EXTENDS Naturals

Statuses == {"none", "pending", "retrying", "success", "failed"}

JobRows == [status: Statuses, attempt: Nat, enqueued: BOOLEAN, due: BOOLEAN]

NoRow == [status |-> "none", attempt |-> 0, enqueued |-> FALSE, due |-> FALSE]

\* create_job, and the INSERT of scheduler/fire.rs: column defaults.
CreatedRow == [NoRow EXCEPT !.status = "pending"]

\* mark_enqueued.
MarkedEnqueued(r) == [r EXCEPT !.enqueued = TRUE]

\* Broken variant: a status no reader of the column knows.
CompletedAsDelivered(r) == [r EXCEPT !.status = "delivered", !.attempt = @ + 1]

\* complete_job.
Completed(r) == [r EXCEPT !.status = "success", !.attempt = @ + 1]

\* fail_job.
Failed(r) == [r EXCEPT !.status = "failed", !.attempt = @ + 1]

\* defer_job: no attempt is consumed.
Deferred(r) == [r EXCEPT !.status = "retrying", !.due = FALSE, !.enqueued = FALSE]

\* schedule_retry.
RetryScheduled(r) ==
    [r EXCEPT !.status = "retrying", !.attempt = @ + 1, !.due = FALSE, !.enqueued = FALSE]

\* reset_for_retry: only a failed job; the attempt counter is kept.
Retryable(r) == r.status = "failed"

ResetForRetry(r) == [r EXCEPT !.status = "pending", !.enqueued = FALSE]

\* The status test of get_job_for_delivery.
Live(r) == r.status \in {"pending", "retrying"}

\* Broken variant: only pending jobs are listed.
UnqueuedPendingOnly(r) == ~r.enqueued /\ r.status = "pending"

\* The WHERE clause of list_unqueued.  The five seconds a pending job has to be
\* old are not modelled: a publisher may be slower than that at any step.
Unqueued(r) ==
    /\ ~r.enqueued
    /\ \/ r.status = "pending"
       \/ r.status = "retrying" /\ r.due
=============================================================================
