----------------------------- MODULE Checkpoints -----------------------------
(***************************************************************************)
(* Delivery checkpoints and transform state: the workers' runs             *)
(* (_CheckpointGate, _hydrate_state_from_store, _save_state_to_store in    *)
(* src/tram/pipeline/executor.py) against the manager's one transaction    *)
(* (_commit_atomic_checkpoint in src/tram/api/routers/internal.py), its    *)
(* unfenced PUT, and a pipeline update that deletes the state row.         *)
(*                                                                         *)
(* A transform's state is the number of times it has absorbed each unit,   *)
(* capped at two.  Units are one-shot (frontier_seq is always 1).  Only a  *)
(* DELIVERED unit passes the gate: one that is filtered, dead-lettered or  *)
(* dropped is acknowledged without a checkpoint, and one whose pass decides *)
(* nothing (the transforms emitted no record, a sink's commit failed, a    *)
(* loss the policy does not decide) is not acknowledged at all.  The       *)
(* transforms have absorbed it in each case.                               *)
(***************************************************************************)
EXTENDS Naturals, FiniteSetsExt

CONSTANTS
    NUnits,         \* source units, read in order
    Configs,        \* pipeline configurations to start from
    MaxAttempts     \* retry_count + 1

Units == 1..NUnits

\* How the pass of a unit ends: DELIVERED, another disposition, or undecided.
Ends == {"delivered", "other", "open"}

ASSUME CheckpointConstants ==
    /\ NUnits \in Nat \ {0}
    /\ MaxAttempts \in Nat \ {0}
    /\ Configs \subseteq [strict : BOOLEAN, stateful : BOOLEAN, overlap : BOOLEAN,
                         ends : SUBSET Ends, units : Units, updates : Nat, faults : Nat]

Writers == 1..2     \* two runs may overlap after a presumed-lost dispatch or an update

VARIABLES
    cfg,        \* [strict, stateful, overlap, ends: how a pass may end, units,
                \*  updates: the updates left to make,
                \*  faults: bound on crashes, lost answers and failed calls]
    gen,        \* the pipeline's generation
    row,        \* the transform_state row
    ckpt,       \* delivery_checkpoints: unit -> revision at its commit
    arrived,    \* units 1..arrived are in the source
    acked,      \* units the source was told of
    bare,       \* those acknowledged outside the gate, with another disposition
    open,       \* units whose latest pass decided nothing
    run,        \* [Writers -> the run]
    hurt        \* [left: the faults that may still happen, kinds: what has happened]

vars == <<cfg, gen, row, ckpt, arrived, acked, bare, open, run, hurt>>

Zero == [u \in Units |-> 0]
NoRow == [gen |-> 0, rev |-> 0, sha |-> 0, state |-> Zero]
Absent == row.sha = 0
NoRun == [pc |-> "idle"]

Kinds == {"crash", "lost", "ack", "get", "put", "error", "open"}
Hurts(k) == /\ hurt.left > 0
            /\ hurt' = [left |-> hurt.left - 1, kinds |-> hurt.kinds \cup {k}]

Init ==
    /\ cfg \in Configs
    /\ gen = 1
    /\ row = NoRow
    /\ ckpt = Zero
    /\ arrived = 1
    /\ acked = {} /\ bare = {} /\ open = {}
    /\ run = [w \in Writers |-> NoRun]
    /\ hurt = [left |-> cfg.faults, kinds |-> {}]

----------------------------------------------------------------------------
(* The manager *)

\* _commit_atomic_checkpoint: the monotonic upsert of the unit's row, then the
\* fenced insert or update of the state; a refused fence rolls both back.
Duplicate(u) == ckpt[u] > 0
Fenced(r) == ~Absent /\ ~(row.rev = r.base /\ row.gen \in {0, r.gen})
Outcome(r) ==
    IF Duplicate(r.cur) THEN "already" ELSE IF Fenced(r) THEN "stale" ELSE "committed"

CommitAtomic(r) ==
    IF Outcome(r) = "committed"
    THEN /\ ckpt' = [ckpt EXCEPT ![r.cur] = r.base + 1]
         /\ row' = [gen |-> r.gen, rev |-> IF Absent THEN 1 ELSE row.rev + 1,
                    sha |-> r.gen, state |-> r.mem]
    ELSE UNCHANGED <<ckpt, row>>

\* save_transform_state: the row is overwritten, its revision and generation kept.
SaveState(r) == row' = [row EXCEPT !.state = r.mem, !.sha = r.gen]

----------------------------------------------------------------------------
(* A run *)

\* Bug: every run starts from revision 0.
HydratedBaseZero(r, got) ==
    [state |-> IF cfg.stateful /\ got /\ ~Absent /\ row.sha = r.gen THEN row.state ELSE Zero, rev |-> 0]

\* Bug: the run never reads the state the last one left.
HydratedEmpty(r, got) == [state |-> Zero, rev |-> row.rev]

\* _hydrate_state_from_store: what a fresh run starts from.  No stateful
\* transform, no row, a failed GET or another configuration's row: nothing.
Hydrated(r, got) ==
    IF cfg.stateful /\ got /\ ~Absent /\ row.sha = r.gen
    THEN [state |-> row.state, rev |-> row.rev] ELSE [state |-> Zero, rev |-> 0]

Waiting == (1..arrived) \ acked

\* A run starts when none is active, or beside one that is presumed lost.
StartRun(w) ==
    /\ run[w].pc = "idle"
    /\ IF w = 1 THEN run[2].pc # "idle" => cfg.overlap ELSE cfg.overlap /\ run[1].pc # "idle"
    /\ Waiting # {}
    /\ \E got \in BOOLEAN :
        /\ IF got THEN UNCHANGED hurt ELSE cfg.stateful /\ Hurts("get")
        /\ LET h == Hydrated([gen |-> gen], got)
           IN  run' = [run EXCEPT ![w] =
                    [pc |-> "work", gen |-> gen, base |-> h.rev, mem |-> h.state, snap |-> h,
                     todo |-> Waiting, cur |-> 0, attempt |-> 1]]
    /\ UNCHANGED <<cfg, gen, row, ckpt, arrived, acked, bare, open>>

\* The state after one more unit; the count is capped.
Absorbed(state, u) == [state EXCEPT ![u] = IF @ < 2 THEN @ + 1 ELSE 2]

\* _finalize_batch_source_unit once the unit is through transforms and sinks:
\* only a DELIVERED unit goes to the gate.
AfterPass(end) ==
    CASE end = "delivered" -> "post" [] end = "other" -> "bare" [] end = "open" -> "work"

\* The next unit goes through the transforms, the sinks and the commit barrier.
Deliver(w, end) ==
    /\ run[w].pc = "work" /\ run[w].todo # {} /\ end \in cfg.ends
    /\ LET r == run[w]
           u == Min(r.todo)
       IN  /\ run' = [run EXCEPT ![w] = [r EXCEPT !.pc = AfterPass(end), !.cur = u,
                                !.todo = r.todo \ {u}, !.mem = Absorbed(r.mem, u)]]
           /\ open' = IF end = "open" THEN open \cup {u} ELSE open \ {u}
    /\ hurt' = IF end = "open" THEN [hurt EXCEPT !.kinds = @ \cup {"open"}] ELSE hurt
    /\ UNCHANGED <<cfg, gen, row, ckpt, arrived, acked, bare>>

\* _restore_committed_state after a duplicate.
Restored(r) ==
    IF ~Absent /\ row.sha = r.gen /\ cfg.stateful THEN row.state ELSE r.mem

\* Bug: strict acknowledges what the manager did not commit.
PendingAcked(r) == [r EXCEPT !.pc = "ack"]

\* check_unit: the POST is answered, or its answer (or the request) is lost.  A
\* pending strict unit is not acknowledged and the run goes on.
Pending(r) == [r EXCEPT !.pc = IF cfg.strict THEN "work" ELSE "ack"]

Checkpoint(w) ==
    /\ run[w].pc = "post"
    /\ LET r == run[w]
       IN  /\ CommitAtomic(r)
           /\ run' = [run EXCEPT ![w] =
                CASE Outcome(r) = "committed" -> [r EXCEPT !.pc = "ack", !.base = @ + 1]
                  [] Outcome(r) = "already" ->
                        [r EXCEPT !.pc = "ack", !.base = ckpt[r.cur], !.mem = Restored(r)]
                  [] Outcome(r) = "stale" -> Pending(r)]
    /\ UNCHANGED <<cfg, gen, arrived, acked, bare, open, hurt>>

CheckpointLost(w) ==
    /\ run[w].pc = "post" /\ Hurts("lost")
    /\ \/ CommitAtomic(run[w])
       \/ UNCHANGED <<ckpt, row>>
    /\ run' = [run EXCEPT ![w] = Pending(@)]
    /\ UNCHANGED <<cfg, gen, arrived, acked, bare, open>>

\* _ack_source_unit: a failure is logged.
Ack(w) ==
    /\ run[w].pc \in {"ack", "bare"}
    /\ \/ /\ acked' = acked \cup {run[w].cur}
          /\ bare' = IF run[w].pc = "bare" THEN bare \cup {run[w].cur} ELSE bare
          /\ UNCHANGED hurt
       \/ Hurts("ack") /\ UNCHANGED <<acked, bare>>
    /\ run' = [run EXCEPT ![w].pc = "work"]
    /\ UNCHANGED <<cfg, gen, row, ckpt, arrived, open>>

\* A TramError under on_error=retry: the next attempt starts from the run's own
\* snapshot; the last attempt ends the run without saving state.
AttemptFails(w) ==
    /\ run[w].pc = "work" /\ Hurts("error")
    /\ run' = [run EXCEPT ![w] =
            IF @.attempt < MaxAttempts
            THEN [@ EXCEPT !.attempt = run[w].attempt + 1, !.todo = Waiting,
                           !.mem = run[w].snap.state, !.base = run[w].snap.rev]
            ELSE NoRun]
    /\ UNCHANGED <<cfg, gen, row, ckpt, arrived, acked, bare, open>>

\* The source is exhausted: _save_state_to_store, and the run is over.
EndRun(w) ==
    /\ run[w].pc = "work" /\ run[w].todo = {}
    /\ \/ /\ IF cfg.stateful THEN SaveState(run[w]) ELSE UNCHANGED row
          /\ UNCHANGED hurt
       \/ cfg.stateful /\ Hurts("put") /\ UNCHANGED row
    /\ run' = [run EXCEPT ![w] = NoRun]
    /\ UNCHANGED <<cfg, gen, ckpt, arrived, acked, bare, open>>

CrashRun(w) ==
    /\ run[w].pc # "idle" /\ Hurts("crash")
    /\ run' = [run EXCEPT ![w] = NoRun]
    /\ UNCHANGED <<cfg, gen, row, ckpt, arrived, acked, bare, open>>

\* PipelineController.update: a new generation, the state row deleted; a batch
\* run on a worker is not stopped.
Update ==
    /\ cfg.updates > 0
    /\ cfg' = [cfg EXCEPT !.updates = @ - 1]
    /\ gen' = gen + 1
    /\ row' = NoRow
    /\ UNCHANGED <<ckpt, arrived, acked, bare, open, run, hurt>>

Arrive ==
    /\ arrived < cfg.units
    /\ arrived' = arrived + 1
    /\ UNCHANGED <<cfg, gen, row, ckpt, acked, bare, open, run, hurt>>

Step(w) ==
    \/ StartRun(w) \/ Checkpoint(w) \/ Ack(w) \/ EndRun(w)
    \/ \E end \in Ends : Deliver(w, end)
Harm(w) == CheckpointLost(w) \/ AttemptFails(w) \/ CrashRun(w)

\* Every unit was acknowledged and no run is active.
Settled == acked = 1..cfg.units /\ (\A w \in Writers : run[w].pc = "idle") /\ UNCHANGED vars

Next == Update \/ Arrive \/ Settled \/ \E w \in Writers : Step(w) \/ Harm(w)

Spec == Init /\ [][Next]_vars

\* The scheduler fires again and again, and a worker's run goes on.
FairSpec == Spec /\ \A w \in Writers : WF_vars(Step(w))

----------------------------------------------------------------------------
(* Properties *)

RunType ==
    [pc : {"work", "post", "ack", "bare"}, gen : 1..gen, base : Nat, mem : [Units -> 0..2],
     snap : [state : [Units -> 0..2], rev : Nat], todo : SUBSET (1..arrived),
     cur : 0..arrived, attempt : 1..MaxAttempts]

\* Every variable keeps its type; a capped count stays at two.
TypeOK ==
    /\ cfg \in [strict : BOOLEAN, stateful : BOOLEAN, overlap : BOOLEAN,
                ends : SUBSET Ends, units : Units, updates : Nat, faults : Nat]
    /\ gen \in Nat \ {0} /\ arrived \in Units /\ acked \subseteq 1..arrived
    /\ bare \subseteq acked /\ open \subseteq Units
    /\ row \in [gen : 0..gen, rev : Nat, sha : 0..gen, state : [Units -> 0..2]]
    /\ ckpt \in [Units -> Nat]
    /\ hurt \in [left : Nat, kinds : SUBSET Kinds]
    /\ run \in [Writers -> RunType \cup {NoRun}]

\* A strict pipeline acknowledges a unit as DELIVERED only once the manager has
\* its checkpoint row, whatever answers, runs or updates came between
\* (check_unit); every other acknowledgement carries another disposition.
StrictAckIsCommitted == TypeOK /\ (cfg.strict => \A u \in acked \ bare : Duplicate(u))

OnlyHurt(ks) == hurt.kinds \subseteq ks
Alone == gen = 1 /\ ~cfg.overlap /\ cfg.stateful

\* The checkpoint, its state and the replay's restore fit together: a unit a
\* strict pipeline has acknowledged as DELIVERED is in the saved state, exactly
\* once if runs crash, at least once if answers, acknowledgements and PUTs fail
\* and passes decide nothing as well.  Of a unit acknowledged outside the gate
\* nothing is claimed: a crash loses what the transforms kept of it.
AckedIsAbsorbed ==
    Alone /\ cfg.strict =>
        /\ OnlyHurt({"crash"}) => \A u \in acked \ bare : row.state[u] = 1
        /\ OnlyHurt({"crash", "lost", "ack", "put", "open"}) =>
              \A u \in acked \ bare : row.state[u] >= 1

\* A strict pipeline gets through its input: each unit is eventually
\* acknowledged, because a later run sends the revision it hydrated ("a run
\* starting against an advanced row sends the hydrated revision, never 0"); only
\* a unit whose latest pass decided nothing may wait for ever.
EveryUnitIsAcked == \A u \in Units : (u <= arrived) ~> (u \in acked \cup open)

\* EveryUnitIsAcked for pipelines with stateful transforms that are not updated.
StatefulUnitsAreAcked == cfg.stateful /\ cfg.updates = 0 => EveryUnitIsAcked
=============================================================================
