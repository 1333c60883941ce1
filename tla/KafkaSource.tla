---------------------------- MODULE KafkaSource ----------------------------
(***************************************************************************)
(* KafkaSource (src/tram/connectors/kafka/source.py) as the executor uses  *)
(* it: the reader thread polls, yields and commits; any thread may call    *)
(* ack() for a yielded record, in any order and more than once.  The       *)
(* consumer group, its other members and the partitions' logs are the      *)
(* broker's side.                                                          *)
(*                                                                         *)
(* Offsets are 1..LogEnd, so that the code's -1 ("nothing") is 0 and an    *)
(* offset o of the group means "resume at o + 1".  A meta <<p, o, e>> is   *)
(* what read() yields: partition, offset and ownership epoch.  Offsets are *)
(* read in ascending order, so a deque or a poll's list of them is the set *)
(* of its members.                                                         *)
(*                                                                         *)
(* enable_auto_commit is off, its default: with it on, ack() returns at    *)
(* once and the client commits its position on a timer, whatever the       *)
(* executor has decided.  The source is executor-managed (_ack_managed).   *)
(***************************************************************************)
EXTENDS Integers, FiniteSets, FiniteSetsExt

CONSTANTS
    Partitions,     \* a set of numbers: polls list partitions in this order
    LogEnd,         \* bound: offsets of a partition
    Starts,         \* the logs, what is produced of them, and auto_offset_reset to start from
    MaxPoll,        \* max_poll_records
    MaxReconnects,  \* max_reconnect_attempts; 0 is unlimited
    MaxFaults       \* bound: rebalances, lost sessions, failed builds, polls and commits

Offsets == 1..LogEnd
Kinds == {"value", "tombstone", "compacted"}
Logs == [Partitions -> [Offsets -> Kinds]]
Resets == {"earliest", "latest"}

ASSUME KafkaConstants ==
    /\ Partitions \subseteq Nat
    /\ LogEnd \in Nat
    /\ Starts \subseteq [log : Logs, end : [Partitions -> 0..LogEnd], reset : Resets]
    /\ MaxPoll \in Nat /\ MaxReconnects \in Nat /\ MaxFaults \in Nat

VARIABLES
    log,        \* the records; a compacted offset is never returned by a poll
    end,        \* [Partitions -> 0..LogEnd] the last offset produced so far
    reset,      \* auto_offset_reset: "earliest" or "latest" (the default)
    committed,  \* [Partitions -> 0..LogEnd] the group's committed offsets, 0 if none
    owned,      \* the partitions the group coordinator assigns to this consumer
    k,          \* the fields of the KafkaSource
    reader,     \* the generator read() and its consumer
    metas,      \* the records yielded so far
    decided,    \* <<p, o>> whose outcome the executor, or the member that owns p, decided
    skipped,    \* <<p, o>> below a position that auto_offset_reset=latest has set
    faults

kvars == <<log, end, reset, committed, owned, k, reader, metas, decided, skipped, faults>>

----------------------------------------------------------------------------
(* The fields under _lock *)

None == [p \in Partitions |-> 0]
Empty == [p \in Partitions |-> {}]

NewSource ==
    [consumer |-> FALSE, epoch |-> 0, pepoch |-> None, assigned |-> {}, completed |-> None,
     ooo |-> Empty, tombstones |-> Empty, readMin |-> None,
     observed |-> Empty, pending |-> None]

\* _partition_epochs.get(key, _assignment_epoch)
EpochOf(s, p) == IF s.pepoch[p] = 0 THEN s.epoch ELSE s.pepoch[p]

\* _reset_session_state
ResetSession(s) == [NewSource EXCEPT !.consumer = s.consumer, !.epoch = s.epoch + 1]

\* _forget_partition
Without(f, ps, d) == [p \in Partitions |-> IF p \in ps THEN d ELSE f[p]]

\* Bug: offsets waiting for a commit survive the loss of their partition.
ForgetKeepsPending(s, ps) ==
    [s EXCEPT !.pepoch = Without(@, ps, 0), !.completed = Without(@, ps, 0),
              !.ooo = Without(@, ps, {}), !.tombstones = Without(@, ps, {}),
              !.readMin = Without(@, ps, 0), !.observed = Without(@, ps, {})]

Forget(s, ps) ==
    [s EXCEPT !.pepoch = Without(@, ps, 0), !.completed = Without(@, ps, 0),
              !.ooo = Without(@, ps, {}), !.tombstones = Without(@, ps, {}),
              !.readMin = Without(@, ps, 0), !.observed = Without(@, ps, {}),
              !.pending = Without(@, ps, 0)]

\* _on_partitions_revoked
Revoked(s, ps) == [Forget(s, ps) EXCEPT !.epoch = @ + 1, !.assigned = @ \ ps]

\* _on_partitions_assigned, and _sync_assignment when the set changed
Assigned(s, ps) ==
    LET e == s.epoch + 1
        f == Forget(s, s.assigned \ ps)
    IN  [f EXCEPT !.epoch = e, !.assigned = ps,
                  !.pepoch = [p \in Partitions |-> IF p \in ps /\ @[p] = 0 THEN e ELSE @[p]]]

Larger(a, b) == IF a > b THEN a ELSE b

\* Bug: a hole of the log is waited for.
AdvanceByNumber(s, p) ==
    LET done  == s.ooo[p] \union s.tombstones[p]
        low   == Larger(s.completed[p], s.readMin[p] - 1)
        swept == {o \in s.observed[p] : (low + 1)..o \subseteq done}
    IN  IF swept = {} THEN s
        ELSE [s EXCEPT !.ooo[p] = @ \ swept, !.tombstones[p] = @ \ swept,
                       !.completed[p] = Max(swept), !.observed[p] = @ \ swept,
                       !.pending[p] = Larger(@, Max(swept))]

\* _advance_decided_frontier: over the longest decided prefix of what was read.
Advance(s, p) ==
    LET done  == s.ooo[p] \union s.tombstones[p]
        swept == {o \in s.observed[p] : \A x \in s.observed[p] : x <= o => x \in done}
    IN  IF swept = {} THEN s
        ELSE [s EXCEPT !.ooo[p] = @ \ swept, !.tombstones[p] = @ \ swept,
                       !.completed[p] = Max(swept), !.observed[p] = @ \ swept,
                       !.pending[p] = Larger(@, Max(swept))]

\* ack() after the epoch and consumer checks.  Without read coverage the
\* offset itself is the frontier.
AckOffset(s, p, o) ==
    IF o <= Larger(s.completed[p], s.readMin[p] - 1) \/ o \in s.ooo[p] THEN s
    ELSE IF s.readMin[p] = 0
         THEN [s EXCEPT !.completed[p] = o, !.pending[p] = Larger(@, o)]
         ELSE Advance([s EXCEPT !.ooo[p] = @ \union {o}], p)

\* Bug: the epoch of the completion is not looked at.
AckedUnfenced(s, m) == IF ~s.consumer THEN s ELSE AckOffset(s, m[1], m[2])

Acked(s, m) ==
    IF m[3] # EpochOf(s, m[1]) \/ ~s.consumer THEN s ELSE AckOffset(s, m[1], m[2])

\* The poll batch is recorded before it is yielded.
Floor(s, p) == IF s.observed[p] = {} THEN s.completed[p] ELSE Max(s.observed[p])

Observed(s, os) ==
    [s EXCEPT
        !.readMin = [p \in Partitions |-> IF @[p] = 0 /\ os[p] # {} THEN Min(os[p]) ELSE @[p]],
        !.observed = [p \in Partitions |-> @[p] \union {o \in os[p] : o > Floor(s, p)}]]

\* A record with no value: never yielded, swept at intake.
Tombstone(s, p, o) ==
    IF o > s.completed[p] THEN Advance([s EXCEPT !.tombstones[p] = @ \union {o}], p) ELSE s

----------------------------------------------------------------------------
(* The reader thread *)

NewReader ==
    [pc |-> "build", position |-> None, batch |-> Empty, epochs |-> None,
     taken |-> None, next |-> "poll", attempt |-> 0]

Fault == faults < MaxFaults /\ faults' = faults + 1

\* A consumer is built and subscribed: a new session.
Build ==
    /\ reader.pc = "build"
    /\ k' = [ResetSession(k) EXCEPT !.consumer = TRUE]
    /\ reader' = [reader EXCEPT !.pc = "poll", !.position = None]
    /\ UNCHANGED <<log, end, reset, committed, owned, metas, decided, skipped, faults>>

\* No broker answers: the SourceError ends read().
BuildFails ==
    /\ reader.pc = "build" /\ Fault
    /\ reader' = [reader EXCEPT !.pc = "failed"]
    /\ UNCHANGED <<log, end, reset, committed, owned, k, metas, decided, skipped>>

\* What a poll may return for p.
Fetchable(p, from) == {o \in Offsets : from < o /\ o <= end[p] /\ log[p][o] # "compacted"}

\* The group has committed nothing for p and the position is reset to the log's end.
ResetToEnd(p) == reset = "latest" /\ committed[p] = 0

\* Where a consumer that is assigned ps resumes, and what it thereby leaves out.
Resume(ps) == [p \in Partitions |-> IF p \in ps /\ ResetToEnd(p) THEN end[p] ELSE committed[p]]
LeftOut(ps) == {x \in ps \X Offsets : ResetToEnd(x[1]) /\ x[2] <= end[x[1]]}

\* The poll batch is materialised and recorded before its first record is yielded.
Intake(s, r, os) ==
    /\ k' = Observed(s, os)
    /\ reader' = [r EXCEPT
            !.pc = IF os = Empty THEN "poll" ELSE "yield",
            !.attempt = 0, !.taken = None, !.batch = os,
            !.epochs = [p \in Partitions |-> IF os[p] = {} THEN 0 ELSE EpochOf(s, p)],
            !.position = [p \in Partitions |-> IF os[p] = {} THEN @[p] ELSE Max(os[p])]]

\* After the drain: the batch is yielded, or the consumer leaves the group.
AfterDrain(s, r, ps) ==
    IF r.next = "yield" THEN Intake(s, r, r.batch) /\ owned' = ps
    ELSE /\ k' = [s EXCEPT !.consumer = FALSE]
         /\ reader' = [NewReader EXCEPT !.pc = r.next, !.attempt = r.attempt]
         /\ owned' = {}

\* _drain_pending_commits captures the pending set whole, if there is one.
Drain(s, r, ps) ==
    IF s.pending = None THEN AfterDrain(s, r, ps)
    ELSE /\ k' = [s EXCEPT !.pending = None]
         /\ reader' = [r EXCEPT !.pc = "commit", !.taken = s.pending,
                                !.epochs = [p \in Partitions |-> EpochOf(s, p)]]
         /\ owned' = ps

(***************************************************************************)
(* consumer.poll(): the group may rebalance inside it, revoking everything *)
(* and assigning ps; then at most MaxPoll records of the assigned          *)
(* partitions, each from its position on, and at least one if there is one. *)
(***************************************************************************)
Poll(ps, upto) ==
    /\ reader.pc = "poll"
    /\ LET rebalance == ps # k.assigned \/ owned # k.assigned
           s == IF rebalance THEN Assigned(Revoked(k, k.assigned), ps) ELSE k
           from == IF rebalance THEN Resume(ps) ELSE reader.position
           os == [p \in Partitions |->
                    {o \in Fetchable(p, from[p]) : p \in ps /\ o <= upto[p]}]
       IN  /\ MapThenSumSet(LAMBDA p : Cardinality(os[p]), Partitions) <= MaxPoll
           /\ os = Empty => \A p \in ps : Fetchable(p, from[p]) = {}
           /\ skipped' = IF rebalance THEN skipped \union LeftOut(ps) ELSE skipped
           /\ IF rebalance /\ owned = k.assigned /\ owned # {} THEN Fault ELSE UNCHANGED faults
           /\ Drain(s, [reader EXCEPT !.position = from, !.next = "yield", !.batch = os], ps)
    /\ UNCHANGED <<log, end, reset, committed, metas, decided>>

\* The poll raises: close() drains, then read() reconnects or gives up.
PollFails ==
    /\ reader.pc = "poll" /\ Fault
    /\ LET over == MaxReconnects > 0 /\ reader.attempt + 1 >= MaxReconnects
       IN  Drain(k, [reader EXCEPT !.attempt = @ + 1, !.next = IF over THEN "failed" ELSE "build"], owned)
    /\ UNCHANGED <<log, end, reset, committed, metas, decided, skipped>>

\* close() by the executor that ends the run.
Close ==
    /\ reader.pc \in {"poll", "yield"}
    /\ Drain(k, [reader EXCEPT !.next = "closed"], owned)
    /\ UNCHANGED <<log, end, reset, committed, metas, decided, skipped, faults>>

Taken == {p \in Partitions : reader.taken[p] > 0}
Applied == [p \in Partitions |-> IF p \in Taken THEN reader.taken[p] ELSE committed[p]]

\* The commit succeeds; the coordinator accepts it only from the owner.
CommitOk ==
    /\ reader.pc = "commit" /\ Taken \subseteq owned
    /\ committed' = Applied
    /\ AfterDrain(k, reader, owned)
    /\ UNCHANGED <<log, end, reset, metas, decided, skipped, faults>>

\* A failed or uncertain commit still owns its frontiers.
Restored(s) ==
    [s EXCEPT !.pending = [p \in Partitions |->
        IF p \in Taken /\ reader.epochs[p] = EpochOf(s, p) THEN Larger(@[p], reader.taken[p]) ELSE @[p]]]

\* The commit raises: refused, or applied with the answer lost.
CommitFails(applied) ==
    /\ reader.pc = "commit" /\ Taken # {}
    /\ IF Taken \subseteq owned THEN Fault ELSE ~applied /\ UNCHANGED faults
    /\ committed' = IF applied THEN Applied ELSE committed
    /\ AfterDrain(Restored(k), reader, owned)
    /\ UNCHANGED <<log, end, reset, metas, decided, skipped>>

\* The next record of the batch, partition by partition.
NextPartition == Min({p \in Partitions : reader.batch[p] # {}})
NextOffset == Min(reader.batch[NextPartition])
IsPayload == log[NextPartition][NextOffset] = "value"
Popped ==
    LET rest == [reader.batch EXCEPT ![NextPartition] = @ \ {NextOffset}]
    IN  [reader EXCEPT !.batch = rest, !.pc = IF rest = Empty THEN "poll" ELSE "yield"]

\* A payload is handed to the executor.
Yield ==
    /\ reader.pc = "yield" /\ IsPayload
    /\ metas' = metas \union {<<NextPartition, NextOffset, reader.epochs[NextPartition]>>}
    /\ reader' = Popped
    /\ UNCHANGED <<log, end, reset, committed, owned, k, decided, skipped, faults>>

\* A tombstone is not.
SkipTombstone ==
    /\ reader.pc = "yield" /\ ~IsPayload
    /\ k' = Tombstone(k, NextPartition, NextOffset)
    /\ reader' = Popped
    /\ UNCHANGED <<log, end, reset, committed, owned, metas, decided, skipped, faults>>

----------------------------------------------------------------------------
(* The executor's threads and the broker *)

\* ack(meta, disposition) for a decided record.
Ack(m) ==
    /\ k' = Acked(k, m)
    /\ decided' = decided \union {<<m[1], m[2]>>}
    /\ UNCHANGED <<log, end, reset, committed, owned, reader, metas, skipped, faults>>

\* The session times out: the coordinator gives the partitions away.
SessionLost ==
    /\ owned # {} /\ Fault
    /\ owned' = {}
    /\ UNCHANGED <<log, end, reset, committed, k, reader, metas, decided, skipped>>

\* Another member of the group decides and commits an offset of p: the next one,
\* or, before the first commit, any one that follows its own reset.
OtherCommits(p, o) ==
    /\ p \notin owned /\ committed[p] < o /\ o <= end[p]
    /\ o # committed[p] + 1 => ResetToEnd(p)
    /\ committed' = [committed EXCEPT ![p] = o]
    /\ decided' = decided \union {<<p, o>>}
    /\ skipped' = skipped \union {<<p, x>> : x \in (committed[p] + 1)..(o - 1)}
    /\ UNCHANGED <<log, end, reset, owned, k, reader, metas, faults>>

\* A record is appended to p.
Produce(p) ==
    /\ end[p] < LogEnd
    /\ end' = [end EXCEPT ![p] = @ + 1]
    /\ UNCHANGED <<log, reset, committed, owned, k, reader, metas, decided, skipped, faults>>

Init ==
    /\ \E s \in Starts : log = s.log /\ end = s.end /\ reset = s.reset
    /\ committed = None
    /\ owned = {}
    /\ k = NewSource
    /\ reader = NewReader
    /\ metas = {}
    /\ decided = {}
    /\ skipped = {}
    /\ faults = 0

ReaderStep ==
    \/ Build \/ BuildFails \/ PollFails \/ CommitOk
    \/ \E ps \in SUBSET Partitions, upto \in [Partitions -> 0..LogEnd] : Poll(ps, upto)
    \/ \E a \in BOOLEAN : CommitFails(a)
    \/ Yield \/ SkipTombstone

Next ==
    \/ ReaderStep \/ SessionLost \/ Close
    \/ \E m \in metas : Ack(m)
    \/ \E p \in Partitions : Produce(p) \/ \E o \in Offsets : OtherCommits(p, o)

Spec == Init /\ [][Next]_kvars

(***************************************************************************)
(* The reader thread runs until it is closed, every record handed out is   *)
(* decided in the end, and the other members of the group do their part.   *)
(***************************************************************************)
Fairness ==
    /\ WF_kvars(ReaderStep /\ UNCHANGED faults)
    /\ WF_kvars(\E m \in metas : Ack(m))
    /\ WF_kvars(\E p \in Partitions, o \in Offsets : OtherCommits(p, o))

FairSpec == Spec /\ Fairness

----------------------------------------------------------------------------
(* Properties *)

SourceType ==
    [consumer : BOOLEAN, epoch : Nat, pepoch : [Partitions -> Nat],
     assigned : SUBSET Partitions, completed : [Partitions -> 0..LogEnd],
     ooo : [Partitions -> SUBSET Offsets], tombstones : [Partitions -> SUBSET Offsets],
     readMin : [Partitions -> 0..LogEnd], observed : [Partitions -> SUBSET Offsets],
     pending : [Partitions -> 0..LogEnd]]

ReaderType ==
    [pc : {"build", "poll", "commit", "yield", "failed", "closed"},
     position : [Partitions -> 0..LogEnd], batch : [Partitions -> SUBSET Offsets],
     epochs : [Partitions -> Nat], taken : [Partitions -> 0..LogEnd],
     next : {"poll", "yield", "build", "failed", "closed"}, attempt : Nat]

TypeOK ==
    /\ log \in Logs /\ end \in [Partitions -> 0..LogEnd] /\ reset \in Resets
    /\ committed \in [Partitions -> 0..LogEnd]
    /\ owned \subseteq Partitions
    /\ k \in SourceType
    /\ reader \in ReaderType
    /\ metas \subseteq Partitions \X Offsets \X (1..k.epoch)
    /\ decided \subseteq Partitions \X Offsets /\ skipped \subseteq Partitions \X Offsets
    /\ faults \in Nat

(***************************************************************************)
(* The offset the group resumes at never lies past a payload whose outcome *)
(* nobody decided: whatever the order of the acks, the tombstones and      *)
(* holes of the log, the rebalances and the failed commits, a restart      *)
(* re-reads it (KafkaSource.ack, _advance_decided_frontier).  The only     *)
(* payloads it may pass are those an auto_offset_reset=latest has jumped   *)
(* over, and only before the group's first commit of the partition.        *)
(***************************************************************************)
CommittedIsDecided ==
    /\ TypeOK
    /\ \A p \in Partitions, o \in Offsets :
         o <= committed[p] /\ log[p][o] = "value" => <<p, o>> \in decided \union skipped
    /\ reset = "earliest" => skipped = {}

(***************************************************************************)
(* A partition's committed offset never moves back: not by a commit that   *)
(* is retried after a failure, nor by a member that lost the partition and *)
(* got it back after another one moved on (_drain_pending_commits).        *)
(***************************************************************************)
CommitNeverRegresses == [][\A p \in Partitions : committed'[p] >= committed[p]]_kvars

(***************************************************************************)
(* Nothing produced is left behind: tombstones, trailing records of a      *)
(* quiet topic, records around a compacted offset and commits that failed  *)
(* all end up below the committed offset, unless the reset to the log's    *)
(* end jumped over them (read(), the tombstone sweep, the pending set      *)
(* drained on every poll).                                                 *)
(***************************************************************************)
LogIsCommitted ==
    \A p \in Partitions, o \in Offsets :
        (o <= end[p] /\ log[p][o] # "compacted") ~> (committed[p] >= o \/ <<p, o>> \in skipped)

============================================================================
