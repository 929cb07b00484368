------------------------------- MODULE Schedule -------------------------------
(***************************************************************************)
(* A row of the schedules table and what the statements of                 *)
(* features/schedules/repository.rs make of it.                            *)
(*                                                                         *)
(*   status   "none" before the INSERT, then "active" or "paused"          *)
(*   deleted  deleted_at IS NOT NULL                                       *)
(*   next     next_run_at                                                  *)
(*   updated  updated_at                                                   *)
(*   shard    assigned_shard, set once                                     *)
(***************************************************************************)
EXTENDS Integers

ScheduleRows(Shards, NoShard) ==
    [status: {"none", "active", "paused"}, deleted: BOOLEAN, next: Nat, updated: Nat,
     shard: Shards \cup {NoShard}]

NoSchedule(NoShard) ==
    [status |-> "none", deleted |-> FALSE, next |-> 0, updated |-> 0, shard |-> NoShard]

\* WHERE deleted_at IS NULL.
Exists(r) == r.status # "none" /\ ~r.deleted

\* WHERE status = 'active' AND deleted_at IS NULL: what is fired and reconciled.
Active(r) == r.status = "active" /\ ~r.deleted

\* compute_next_run_at: a later time.  Which one depends on the cron
\* expression, of which only the distances Gaps to the next occurrence remain.
NextRuns(t, Gaps) == {t + g : g \in Gaps}

\* Broken variant: created in a status no query asks for.
CreatedAsPending(h, n, t) ==
    [status |-> "pending", deleted |-> FALSE, next |-> n, updated |-> t, shard |-> h]

\* create, update, delete, restore, set_status, at time t.
CreatedSchedule(h, n, t) ==
    [status |-> "active", deleted |-> FALSE, next |-> n, updated |-> t, shard |-> h]
UpdatedSchedule(r, n, t) == [r EXCEPT !.next = n, !.updated = t]
DeletedSchedule(r, t) == [r EXCEPT !.deleted = TRUE, !.updated = t]
RestoredSchedule(r, t) == [r EXCEPT !.deleted = FALSE, !.status = "active", !.updated = t]
WithStatus(r, st, t) == [r EXCEPT !.status = st, !.updated = t]

\* The UPDATE of fire_inner, which has no condition but the id.
FiredSchedule(r, n, t) == [r EXCEPT !.next = n, !.updated = t]

\* reconcile: everything at start-up (since = 0), then what changed since the
\* last run less the lookback of one second.
Reconciled(r, since) == Active(r) /\ (since = 0 \/ r.updated > since - 1)
=============================================================================
