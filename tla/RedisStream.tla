----------------------------- MODULE RedisStream -----------------------------
(***************************************************************************)
(* One Redis stream with its consumer group "workers", and the operations  *)
(* src/queue/mod.rs performs on it.  An entry carries a delivery job and   *)
(* nothing else; its id is its position in `log`, so ids are assigned in   *)
(* increasing order and never reused, as Redis assigns them.               *)
(*                                                                         *)
(*   log      every entry ever added, in order                             *)
(*   trimmed  entries 1..trimmed no longer exist in the stream             *)
(*   group    the consumer group exists                                    *)
(*   last     the group's last-delivered-id                                *)
(*   pel      the group's pending entries: delivered, not acknowledged     *)
(***************************************************************************)
EXTENDS Integers, Sequences

\* The values a stream of jobs can have.
Streams(Jobs) ==
    [log: Seq(Jobs), trimmed: Nat, group: BOOLEAN, last: Nat, pel: SUBSET Nat]

\* A stream nothing was ever added to, whose group exists or not.
EmptyStream(g) ==
    [log |-> <<>>, trimmed |-> 0, group |-> g, last |-> 0, pel |-> {}]

\* An entry of the stream that XREADGROUP or XAUTOCLAIM can still return.
Readable(s, m) ==
    /\ m \in 1..Len(s.log)
    /\ m > s.trimmed
    /\ m > s.last \/ m \in s.pel

\* XADD of a job reference.
Enqueue(s, j) == [s EXCEPT !.log = Append(@, j)]

\* The id the next XADD returns.
NextId(s) == Len(s.log) + 1

\* XREADGROUP ... > has something to deliver; without the group it is NOGROUP,
\* which the caller sees as an empty reply.
CanRead(s) == s.group /\ s.last < Len(s.log)

\* XREADGROUP delivers the entry after last-delivered-id into the PEL.
XReadGroup(s) ==
    [s EXCEPT !.last = @ + 1, !.pel = @ \cup {s.last + 1}]

\* XACK removes an entry from the PEL, whichever consumer owns it; the entry
\* itself stays in the stream until it is trimmed.
XAck(s, m) == [s EXCEPT !.pel = @ \ {m}]

\* The entries XAUTOCLAIM returns: pending ones that still exist.  Any of them
\* may have been idle for the threshold, since the model has no clock.
Claimable(s) == {m \in s.pel : Readable(s, m)}

\* XAUTOCLAIM also drops from the PEL the entries that were deleted.
XAutoClaim(s) == [s EXCEPT !.pel = Claimable(s)]

\* XGROUP CREATE ... MKSTREAM: BUSYGROUP, hence no effect, if the group exists;
\* "$" starts after the newest entry, "0-0" before the oldest one.
EnsureConsumerGroup(s, start) ==
    IF s.group THEN s
    ELSE [s EXCEPT !.group = TRUE,
                   !.last = IF start = "$" THEN Len(s.log) ELSE s.trimmed,
                   !.pel = {}]

\* XTRIM MINID ~ cut deletes entries below cut, possibly fewer than all of
\* them: upTo is the newest entry deleted.
XTrim(s, upTo) == [s EXCEPT !.trimmed = upTo]
TrimTargets(s, cut) == s.trimmed .. (IF cut > s.trimmed THEN cut - 1 ELSE s.trimmed)

\* XLEN.
XLen(s) == Len(s.log) - s.trimmed

\* Redis restarts without its data: entries, PEL and group are gone.
LoseData(s) ==
    [s EXCEPT !.trimmed = Len(s.log), !.group = FALSE, !.last = Len(s.log), !.pel = {}]
=============================================================================
