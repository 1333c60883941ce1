--------------------------- MODULE StreamPlacements ---------------------------
(***************************************************************************)
(* The placement of one stream pipeline on the workers: the controller's   *)
(* start, stop, restart, update and delete of a stream, its placement      *)
(* record in memory and in the database, the PlacementReconciler's pass    *)
(* over it, the callbacks of the workers, and a restart of the manager.    *)
(*                                                                         *)
(* A run id is a sequence of numbers: the group, the digits of the slot    *)
(* ("-w10") when there are several, and R followed by the number of the    *)
(* restart ("-r1"); "startswith" is IsPrefix.  A worker is its URL.  Time  *)
(* is abstract: a statistics report may expire and the grace of a new slot *)
(* may end at any moment.                                                  *)
(*                                                                         *)
(* Left out: slots pinned with workers.list, and streams of several slots  *)
(* under TRAM_STREAM_SINGLE_PLACEMENT=0, whose start replaces a placement  *)
(* that is still active.                                                   *)
(***************************************************************************)
EXTENDS Naturals, FiniteSets, Sequences, SequencesExt

CONSTANTS
    Workers,      \* the configured workers
    None,         \* no worker
    Configs       \* the configurations explored, records of
                  \*   placed    single_stream_placements; count is 1 without
                  \*   count     workers.count
                  \*   digits    the digits of the slots' numbers
                  \*   stateful  the versions with a stateful transform
                  \*   reports   the workers report statistics
                  \*   commands  commands of the operator, at most ops of them
                  \*   may       kinds of faults, at most faults of them

VARIABLES
    cfg,      \* the configuration of this behaviour
    pipe,     \* [exists, status, ver] of the manager, [flag, desired] of the database
    mem,      \* the placement in memory: [group, slots, status], group 0 when none
    ids,      \* _stream_run_ids of the pipeline
    rows,     \* the active broadcast_placements rows of the pipeline
    assign,   \* the pool's _assignments, as a set of <<run id, worker>>
    ok,       \* the workers the pool holds healthy
    up,       \* the workers that are up
    live,     \* the runs executing: [id, w, ver, at, stop]
    done,     \* completion callbacks under way: [id, success]
    history,  \* run ids with a recorded result
    fresh,    \* run ids with a current statistics report
    grace,    \* slots too young to have reported statistics
    rec,      \* the pass of the PlacementReconciler
    misses,   \* _unplaced_misses of the pipeline
    groups,   \* placement groups made so far
    clock,    \* runs started so far
    ops,      \* operator commands given so far
    faults    \* faults so far

vars == <<cfg, pipe, mem, ids, rows, assign, ok, up, live, done, history,
          fresh, grace, rec, misses, groups, clock, ops, faults>>
worker == <<ok, up, done, history, fresh>>
bounds == <<cfg, ops, faults>>

-----------------------------------------------------------------------------
All == 0      \* workers.count: all

NoPlacement == [group |-> 0, slots |-> <<>>, status |-> "stopped"]

Idle == [pc |-> "idle", snap |-> {}, copy |-> NoPlacement, i |-> 0,
         run |-> <<>>, w |-> None, ver |-> 0, drift |-> FALSE]

Init ==
    /\ cfg \in Configs
    /\ pipe = [exists |-> TRUE, status |-> "stopped", ver |-> 1,
               flag |-> "running", desired |-> "running"]
    /\ mem = NoPlacement
    /\ ids = {} /\ rows = {} /\ assign = {}
    /\ ok = Workers /\ up = Workers
    /\ live = {} /\ done = {} /\ history = {} /\ fresh = {} /\ grace = {}
    /\ rec = Idle
    /\ misses = 0 /\ groups = 0 /\ clock = 0 /\ ops = 0 /\ faults = 0

\* One more fault of kind k, within the bound.
Fault(k) ==
    /\ k \in cfg.may
    /\ faults < cfg.faults
    /\ faults' = faults + 1

\* A command k of the operator, within the bound.
Command(k) ==
    /\ k \in cfg.commands
    /\ ops < cfg.ops
    /\ ops' = ops + 1
    /\ pipe.exists /\ pipe.status # "down"
    /\ UNCHANGED cfg

-----------------------------------------------------------------------------
(* Run ids and slots.                                                      *)

R == 100      \* the "-r" of a restarted run

RestartCount(id) == IF Len(id) > 2 /\ id[Len(id) - 1] = R THEN id[Len(id)] ELSE 0

NewSlot(id, w, accepted) ==
    [w |-> w, prefix |-> id, run |-> IF accepted THEN id ELSE <<>>,
     status |-> IF accepted THEN "running" ELSE "stale", restarts |-> 0]

RunIdsOf(slots) == {slots[i].run : i \in DOMAIN slots} \ {<<>>}

AllRunning(slots) ==
    \A i \in DOMAIN slots : slots[i].status = "running" /\ slots[i].run # <<>>

\* The row of placement m is saved.
Recorded(rs, m) == {r \in rs : r.group # m.group} \cup {m}

may_schedule == pipe.exists /\ pipe.flag = "running"

-----------------------------------------------------------------------------
(* What a handler does under the lifecycle lock is computed on a record of *)
(* the variables it writes, so that update() and restart_pipeline() can    *)
(* stop and start in one step.                                             *)

Now == [pipe |-> pipe, mem |-> mem, ids |-> ids, rows |-> rows,
        assign |-> assign, live |-> live]

Becomes(s) ==
    /\ pipe' = s.pipe
    /\ mem' = s.mem
    /\ ids' = s.ids
    /\ rows' = s.rows
    /\ assign' = s.assign
    /\ live' = s.live

WithStatus(s, st) == [s EXCEPT !.pipe.status = st]

Signalled(runs, hit) ==
    {IF l \in hit THEN [l EXCEPT !.stop = TRUE] ELSE l : l \in runs}

\* The runs stop_run reaches: those the pool has an assignment for.
Assigned(s) == {l \in s.live : l.id \in s.ids /\ <<l.id, l.w>> \in s.assign}

\* _stop_stream, when the requests to the workers of `missed' fail.
StopStream(s, missed) ==
    LET hit == IF s.mem.group # 0 THEN s.live ELSE Assigned(s)
    IN  [s EXCEPT !.ids = {},
                  !.mem = NoPlacement,
                  !.rows = {r \in s.rows : r.group # s.mem.group},
                  !.live = Signalled(s.live, {l \in hit : l.w \notin missed})]

\* The workers a stop may miss.
Misses == {{}} \cup (IF "stopfail" \in cfg.may /\ faults < cfg.faults
                     THEN {{w} : w \in {l.w : l \in live}} ELSE {})

-----------------------------------------------------------------------------
(* Dispatch.                                                               *)

\* The answers the manager can get to a POST /agent/run of `id' to w.
Answers(id, w) ==
    IF w \notin up \/ \E l \in live : l.id = id /\ l.w = w THEN {"refused"}
    ELSE {"accepted"} \cup (cfg.may \cap {"refused", "lost"})

Run(id, w, at) == [id |-> id, w |-> w, ver |-> pipe.ver, at |-> at, stop |-> FALSE]

Target == IF cfg.count = All THEN Cardinality(ok) ELSE cfg.count

\* The workers resolve() may choose, by a load this model does not have.
Selections ==
    LET k == IF Target < Cardinality(ok) THEN Target ELSE Cardinality(ok)
    IN  {q \in [1..k -> ok] : IsInjective(q)}

\* _start_stream on the workers q with the answers a.
Started(s, q, a) ==
    LET g     == groups + 1
        Id(i) == IF Target = 1 THEN <<g>> ELSE <<g>> \o cfg.digits[i]
        sent  == {i \in 1..Len(q) : a[i] \in {"accepted", "lost"}}
        acc   == {i \in 1..Len(q) : a[i] = "accepted"}
        slots == [i \in 1..Target |->
                    NewSlot(Id(i), IF i \in 1..Len(q) THEN q[i] ELSE None, i \in acc)]
        st    == IF Cardinality(acc) = Target THEN "running" ELSE "degraded"
        pl    == [group |-> g, slots |-> slots, status |-> st]
        s1    == [s EXCEPT !.live = @ \cup {[Run(Id(i), q[i], clock + i)
                                               EXCEPT !.ver = s.pipe.ver] : i \in sent},
                           !.assign = @ \cup {<<Id(i), q[i]>> : i \in acc}]
    IN  IF acc = {} THEN WithStatus(s1, "error")
        ELSE IF cfg.placed
             THEN WithStatus([s1 EXCEPT !.mem = pl, !.ids = RunIdsOf(slots),
                                        !.rows = {pl}], st)
             ELSE WithStatus([s1 EXCEPT !.ids = {Id(1)}], "running")

\* The faults among answers a.
Lapses(q, a) == Cardinality({i \in DOMAIN q : a[i] # "accepted" /\ q[i] \in up})

\* Stateful transforms do not run on several workers.
Rejected(s) == cfg.count # 1 /\ s.pipe.ver \in cfg.stateful

Dispatched(s) == s.ids # {} \/ s.mem.group # 0

\* _start_stream from s, in a step that has met n faults already.
StartStream(s, n) ==
    IF Rejected(s) \/ Dispatched(s) \/ ok = {}
    THEN /\ Becomes(IF Dispatched(s) /\ ~Rejected(s) THEN s ELSE WithStatus(s, "error"))
         /\ faults' = faults + n
         /\ UNCHANGED <<groups, clock, grace>>
    ELSE \E q \in Selections :
         \E a \in [1..Len(q) -> {"accepted", "refused", "lost"}] :
            /\ \A i \in 1..Len(q) : a[i] \in Answers(<<groups + 1>>, q[i])
            /\ faults + n + Lapses(q, a) <= cfg.faults
            /\ faults' = faults + n + Lapses(q, a)
            /\ Becomes(Started(s, q, a))
            /\ groups' = groups + 1
            /\ clock' = clock + Len(q)
            /\ grace' = 1..Target

\* _materialize_placement_from_adoption of the live run l.
Materialized(s, l) ==
    LET pl == [group |-> groups + 1, slots |-> <<NewSlot(l.id, l.w, TRUE)>>,
               status |-> "running"]
    IN  [s EXCEPT !.mem = pl, !.ids = {l.id}, !.rows = {pl},
                  !.assign = @ \cup {<<l.id, l.w>>}]

-----------------------------------------------------------------------------
(* The commands of the operator.                                           *)

\* Mutant: the desired state of an earlier stop stays.
start_pipelineKeepsDesired ==
    LET s == [Now EXCEPT !.pipe.flag = "running"]
    IN  /\ Command("start")
        /\ pipe.status # "running"
        /\ StartStream(s, 0)
        /\ UNCHANGED <<worker, rec, misses>>

start_pipeline ==
    LET s == [Now EXCEPT !.pipe.flag = "running", !.pipe.desired = "running"]
    IN  /\ Command("start")
        /\ pipe.status # "running"
        /\ StartStream(s, 0)
        /\ UNCHANGED <<worker, rec, misses>>

stop_pipeline ==
    /\ Command("stop")
    /\ \E missed \in Misses :
        /\ faults' = faults + Cardinality(missed)
        /\ Becomes([WithStatus(StopStream(Now, missed), "stopped")
                      EXCEPT !.pipe.flag = "stopped", !.pipe.desired = "stopped"])
    /\ UNCHANGED <<worker, rec, misses, groups, clock, grace>>

restart_pipeline ==
    /\ Command("restart")
    /\ \E missed \in IF pipe.status = "running" THEN Misses ELSE {{}} :
        LET s == IF pipe.status = "running"
                 THEN WithStatus(StopStream(Now, missed), "stopped") ELSE Now
        IN  StartStream([s EXCEPT !.pipe.flag = "running"], Cardinality(missed))
    /\ UNCHANGED <<worker, rec, misses>>

update ==
    /\ Command("update")
    /\ \E missed \in Misses :
        LET s == [WithStatus(StopStream(Now, missed), "stopped")
                    EXCEPT !.pipe.ver = @ + 1]
        IN  IF pipe.status = "running" /\ may_schedule
            THEN StartStream(s, Cardinality(missed))
            ELSE /\ Becomes(s)
                 /\ faults' = faults + Cardinality(missed)
                 /\ UNCHANGED <<groups, clock, grace>>
    /\ UNCHANGED <<worker, rec, misses>>

delete ==
    /\ Command("delete")
    /\ \E missed \in Misses :
        /\ faults' = faults + Cardinality(missed)
        /\ Becomes([WithStatus(StopStream(Now, missed), "stopped")
                      EXCEPT !.pipe.exists = FALSE, !.pipe.desired = "deleted"])
    /\ UNCHANGED <<worker, rec, misses, groups, clock, grace>>

-----------------------------------------------------------------------------
(* The manager dies and boots: memory is lost, the workers keep running.   *)

Lost(runs) ==
    /\ pipe.exists
    /\ mem' = NoPlacement /\ ids' = {} /\ assign' = {}
    /\ live' = live \cup runs
    /\ clock' = clock + Cardinality(runs)
    /\ groups' = groups + Cardinality(runs)
    /\ ok' = up /\ fresh' = {} /\ rec' = Idle /\ misses' = 0
    /\ UNCHANGED <<cfg, ops, rows, up, done, history, grace>>

Crash ==
    /\ pipe.status # "down"
    /\ Fault(IF rec.pc = "commit" THEN "crashsend" ELSE "crash")
    /\ pipe' = [pipe EXCEPT !.status = "down"]
    /\ Lost({})

\* The manager dies in a start, between the POST and the record of it.
CrashInStart ==
    /\ pipe.status \notin {"down", "running"}
    /\ ids = {} /\ mem.group = 0
    /\ Fault("crashstart")
    /\ pipe' = [pipe EXCEPT !.status = "down", !.flag = "running", !.desired = "running"]
    /\ \E w \in up \cap ok : Lost({Run(<<groups + 1>>, w, clock + 1)})

BootStopped == pipe.flag = "stopped" \/ pipe.desired # "running"

\* _restore_broadcast_placement of the row r.
Restored(s, r) ==
    LET pl == [r EXCEPT !.status = "reconciling"]
        known == {i \in DOMAIN r.slots : r.slots[i].run # <<>> /\ r.slots[i].w # None}
    IN  WithStatus([s EXCEPT !.mem = pl, !.ids = RunIdsOf(pl.slots), !.rows = Recorded(@, pl),
                             !.assign = @ \cup {<<r.slots[i].run, r.slots[i].w>> : i \in known}],
                   "reconciling")

Earliest(runs) == CHOOSE l \in runs : \A x \in runs : l.at <= x.at

\* _adopt_live_stream_if_any, of the earliest of the live runs.
Adopted(s, runs) ==
    LET l == Earliest(runs)
    IN  WithStatus(IF cfg.placed THEN Materialized(s, l)
                   ELSE [s EXCEPT !.ids = {l.id}, !.assign = @ \cup {<<l.id, l.w>>}],
                   "running")

\* The live runs of a probe of every worker; the probe of one may fail.
Probes == {live} \cup
    (IF "probefail" \in cfg.may /\ faults < cfg.faults
     THEN {{l \in live : l.w # w} : w \in {l.w : l \in live}} ELSE {})

CountProbe(seen) == IF seen = live THEN 0 ELSE 1

Boot ==
    /\ pipe.status = "down"
    /\ \E seen \in Probes :
        LET n == IF BootStopped \/ rows # {} \/ cfg.count # 1 THEN 0 ELSE CountProbe(seen)
        IN  IF BootStopped
            THEN /\ Becomes(WithStatus(Now, "stopped"))
                 /\ UNCHANGED <<faults, groups, clock, grace>>
            ELSE IF rows # {}
            THEN /\ \E r \in rows : Becomes(Restored(Now, r))
                 /\ UNCHANGED <<faults, groups, clock, grace>>
            ELSE IF cfg.count = 1 /\ seen # {}
            THEN /\ Becomes(Adopted(Now, seen))
                 /\ groups' = groups + 1
                 /\ faults' = faults + n
                 /\ grace' = {1}
                 /\ UNCHANGED clock
            ELSE StartStream(WithStatus(Now, "stopped"), n)
    /\ UNCHANGED <<cfg, ops, worker, rec, misses>>

-----------------------------------------------------------------------------
(* The workers and what they tell the manager.                             *)

\* on_worker_run_complete: a result already recorded, or other runs of the
\* stream, end it early.
RunComplete(c) ==
    LET left == ids \ {c.id}
        early == c.id \in history \/ left # {}
    IN  /\ c \in done
        /\ pipe.status # "down"
        /\ done' = done \ {c}
        /\ assign' = {x \in assign : x[1] # c.id}
        /\ ids' = left
        /\ fresh' = IF early THEN fresh ELSE fresh \ {c.id}
        /\ history' = IF early \/ ~pipe.exists THEN history ELSE history \cup {c.id}
        /\ pipe' = IF early \/ ~pipe.exists \/ pipe.status = "stopped" THEN pipe
                   ELSE [pipe EXCEPT !.status = IF c.success THEN "stopped" ELSE "error"]
        /\ UNCHANGED <<bounds, mem, rows, ok, up, live, grace, rec, misses, groups, clock>>

\* A statistics report of run id may change the slot's run.
Renames(slot, id) ==
    /\ slot.run # id
    /\ IsPrefix(slot.prefix, id)
    /\ RestartCount(id) >= RestartCount(slot.run)

\* update_slot_run_id of slot i: the row r still has the run that the memory
\* has; a slot without a run never compares equal.
Swaps(r, i, id) ==
    /\ Renames(mem.slots[i], id)
    /\ mem.slots[i].run # <<>> /\ r.slots[i].run = mem.slots[i].run

\* Bug: a lost race changes the slot in memory.
SlotAfterStatsAnyway(r, i, id) ==
    IF mem.slots[i].run = id \/ Renames(mem.slots[i], id)
    THEN [mem.slots[i] EXCEPT !.run = id, !.status = "running"] ELSE mem.slots[i]

\* Slot i of a reconciling placement after a statistics report of run id.
SlotAfterStats(r, i, id) ==
    IF mem.slots[i].run = id \/ Swaps(r, i, id)
    THEN [mem.slots[i] EXCEPT !.run = id, !.status = "running"] ELSE mem.slots[i]

\* on_pipeline_stats: the slots that were swapped are in the row at once, a
\* lost race keeps the rest of the memory's slots from it.
SlotsReported(l) ==
    \E r \in {x \in rows : x.group = mem.group} :
        LET slots   == [i \in DOMAIN mem.slots |-> SlotAfterStats(r, i, l.id)]
            race    == \E i \in DOMAIN slots : Renames(mem.slots[i], l.id) /\ ~Swaps(r, i, l.id)
            all     == ~race /\ \A i \in DOMAIN slots : slots[i].status = "running"
            changed == \E i \in DOMAIN slots : slots[i].status # mem.slots[i].status
            swapped == [r EXCEPT !.slots = [i \in DOMAIN slots |->
                            IF Swaps(r, i, l.id)
                            THEN [r.slots[i] EXCEPT !.run = l.id, !.status = "running"]
                            ELSE r.slots[i]]]
            pl      == [mem EXCEPT !.slots = slots, !.status = IF all THEN "running" ELSE @]
        IN  /\ mem' = pl
            /\ ids' = RunIdsOf(slots)
            /\ rows' = Recorded(rows, IF all \/ (changed /\ ~race) THEN pl ELSE swapped)
            /\ pipe' = IF all THEN [pipe EXCEPT !.status = "running"] ELSE pipe

\* A report of statistics.
Stats(l) ==
    /\ l \in live /\ cfg.reports
    /\ pipe.status # "down"
    /\ fresh' = fresh \cup {l.id}
    /\ IF mem.group # 0 /\ mem.status = "reconciling"
       THEN SlotsReported(l)
       ELSE UNCHANGED <<mem, ids, rows, pipe>>
    /\ UNCHANGED <<bounds, assign, ok, up, live, done, history, grace, rec,
                   misses, groups, clock>>

\* A run that was asked to stop ends.
RunStops(l) ==
    /\ l \in live /\ l.stop
    /\ live' = live \ {l}
    /\ done' = done \cup {[id |-> l.id, success |-> TRUE]}
    /\ UNCHANGED <<bounds, pipe, mem, ids, rows, assign, ok, up, history, fresh,
                   grace, rec, misses, groups, clock>>

\* A run ends by itself, with its source or with an error.
RunEnds(l, success) ==
    /\ l \in live
    /\ Fault("runend")
    /\ live' = live \ {l}
    /\ done' = done \cup {[id |-> l.id, success |-> success]}
    /\ UNCHANGED <<cfg, ops, pipe, mem, ids, rows, assign, ok, up, history, fresh,
                   grace, rec, misses, groups, clock>>

WorkerCrash(w) ==
    /\ w \in up
    /\ Fault("workercrash")
    /\ up' = up \ {w}
    /\ live' = {l \in live : l.w # w}
    /\ UNCHANGED <<cfg, ops, pipe, mem, ids, rows, assign, ok, done, history, fresh,
                   grace, rec, misses, groups, clock>>

WorkerBoot(w) ==
    /\ w \notin up
    /\ up' = up \cup {w}
    /\ UNCHANGED <<bounds, pipe, mem, ids, rows, assign, ok, live, done, history,
                   fresh, grace, rec, misses, groups, clock>>

\* _poll_all finds w down, or cannot reach it, and its assignments are reaped.
PollDown(w) ==
    /\ w \in ok
    /\ pipe.status # "down"
    /\ IF w \in up THEN Fault("partition") ELSE UNCHANGED faults
    /\ ok' = ok \ {w}
    /\ assign' = {x \in assign : x[2] # w}
    /\ UNCHANGED <<cfg, ops, pipe, mem, ids, rows, up, live, done, history, fresh,
                   grace, rec, misses, groups, clock>>

PollUp(w) ==
    /\ w \in up \ ok
    /\ pipe.status # "down"
    /\ ok' = ok \cup {w}
    /\ UNCHANGED <<bounds, pipe, mem, ids, rows, assign, up, live, done, history,
                   fresh, grace, rec, misses, groups, clock>>

\* Time passes: a report expires once its run has ended, or does not get through;
Expire ==
    /\ \E id \in fresh :
        /\ \/ \A l \in live : l.id # id
           \/ "partition" \in cfg.may
        /\ fresh' = fresh \ {id}
    /\ UNCHANGED <<bounds, pipe, mem, ids, rows, assign, ok, up, live, done, history,
                   grace, rec, misses, groups, clock>>

\* and a grace ends, between two passes: a pass reads the clock once.
GraceEnds ==
    /\ grace # {} /\ rec.pc = "idle"
    /\ grace' = {}
    /\ UNCHANGED <<bounds, pipe, mem, ids, rows, assign, ok, up, live, done, history,
                   fresh, rec, misses, groups, clock>>

-----------------------------------------------------------------------------
(* The pass of the PlacementReconciler.                                    *)

\* What the reconciler leaves alone in every step of a pass.
recFrame == <<cfg, ops, ok, up, done, history, fresh>>

Goto(pc) == rec' = [rec EXCEPT !.pc = pc]

NextSlot(copy) == rec' = [rec EXCEPT !.pc = "slots", !.copy = copy, !.i = @ + 1]

\* The placement the pass works on is still the one in memory.
Current == mem.group = rec.copy.group

\* The controller's write of slot i of the placement, under the lock.
SlotWritten(i, slot) ==
    LET pl == [mem EXCEPT !.slots[i] = slot]
    IN  [Now EXCEPT !.mem = pl, !.ids = RunIdsOf(pl.slots), !.rows = Recorded(@, pl)]

RecSnapshot ==
    /\ rec.pc = "idle"
    /\ pipe.status # "down"
    /\ \E seen \in Probes :
        /\ rec' = [Idle EXCEPT !.pc = "copy", !.snap = seen]
        /\ faults' = faults + CountProbe(seen)
    /\ UNCHANGED <<recFrame, pipe, mem, ids, rows, assign, live, grace, misses, groups, clock>>

RecCopy ==
    /\ rec.pc = "copy"
    /\ rec' = IF mem.group = 0 THEN [rec EXCEPT !.pc = "unplaced"]
              ELSE [rec EXCEPT !.pc = "slots", !.copy = mem, !.i = 1]
    /\ UNCHANGED <<recFrame, faults, pipe, mem, ids, rows, assign, live, grace, misses,
                   groups, clock>>

\* Mutant: a slot has no time to report.
AwaitingNever(i) == FALSE

\* _awaiting_first_stats: slot i is too young to be judged by its reports.
Awaiting(i) == i \in grace

\* The live run of a slot: by its run id, or else on its worker.
FindLive(slot) ==
    LET byId == {x \in rec.snap : x.id = slot.run}
    IN  IF byId # {} THEN byId ELSE {x \in rec.snap : x.w = slot.w}

\* A live run of the slot: adopted, or the start of a drift swap.
RecLive ==
    /\ rec.pc = "slots" /\ rec.i \in DOMAIN rec.copy.slots
    /\ LET old == rec.copy.slots[rec.i] IN
       \E x \in FindLive(old) :
        LET found == [old EXCEPT !.run = x.id, !.w = x.w, !.status = "running"]
            stale == [i \in DOMAIN mem.slots |-> [mem.slots[i] EXCEPT !.status = "stale"]]
        IN  IF pipe.exists /\ x.ver # pipe.ver
            THEN IF Current /\ may_schedule
                 THEN /\ Becomes([Now EXCEPT !.mem.slots = stale,
                                             !.rows = Recorded(@, [mem EXCEPT !.slots = stale])])
                      /\ rec' = [rec EXCEPT !.pc = "drift", !.i = 1, !.drift = TRUE]
                 ELSE Becomes(Now) /\ Goto("unplaced")
            ELSE IF found # old /\ Current
            THEN LET slot == mem.slots[rec.i] IN
                 /\ Becomes(SlotWritten(rec.i,
                      [slot EXCEPT !.run = IF x.id # old.run THEN x.id ELSE @,
                                   !.w = IF x.w # old.w THEN x.w ELSE @,
                                   !.status = IF old.status # "running" THEN "running" ELSE @]))
                 /\ NextSlot([rec.copy EXCEPT !.slots[rec.i] = found])
            ELSE Becomes(Now) /\ NextSlot(rec.copy)
    /\ UNCHANGED <<recFrame, faults, grace, misses, groups, clock>>

\* No live run but a current report of statistics, or none due yet.
RecReported ==
    /\ rec.pc = "slots" /\ rec.i \in DOMAIN rec.copy.slots
    /\ LET old == rec.copy.slots[rec.i] IN
        /\ FindLive(old) = {}
        /\ \/ /\ old.run \notin fresh /\ Awaiting(rec.i)
              /\ Becomes(Now) /\ NextSlot(rec.copy)
           \/ /\ old.run \in fresh
              /\ IF old.status # "running" /\ Current
                 THEN /\ Becomes(SlotWritten(rec.i, [mem.slots[rec.i] EXCEPT !.status = "running"]))
                      /\ NextSlot([rec.copy EXCEPT !.slots[rec.i].status = "running"])
                 ELSE Becomes(Now) /\ NextSlot(rec.copy)
    /\ UNCHANGED <<recFrame, faults, grace, misses, groups, clock>>

\* The worker a slot of the copy may be redispatched to.
Replacements(i) ==
    LET slots == rec.copy.slots IN
    IF slots[i].w \in ok THEN {slots[i].w}
    ELSE IF cfg.count = All THEN {}
    ELSE ok \ {slots[j].w : j \in DOMAIN slots \ {i}}

\* The first locked section of redispatch_broadcast_slot, for slots m of memory.
Claimed(r, m, w) ==
    LET slot == m.slots[r.i]
    IN  [r EXCEPT !.pc = "send", !.w = w, !.ver = pipe.ver,
                  !.run = slot.prefix \o <<R, slot.restarts + 1>>]

\* A slot without a sign of life is marked stale and redispatched.
RecStale ==
    /\ rec.pc = "slots" /\ rec.i \in DOMAIN rec.copy.slots
    /\ LET old  == rec.copy.slots[rec.i]
           s    == IF old.status # "stale" /\ Current
                   THEN SlotWritten(rec.i, [mem.slots[rec.i] EXCEPT !.status = "stale"]) ELSE Now
           copy == IF Current THEN [rec.copy EXCEPT !.slots[rec.i].status = "stale"] ELSE rec.copy
       IN  /\ FindLive(old) = {}
           /\ old.run \notin fresh /\ ~Awaiting(rec.i)
           /\ Becomes(s)
           /\ IF Replacements(rec.i) # {} /\ Current /\ pipe.exists
              THEN \E w \in Replacements(rec.i) :
                     rec' = [Claimed(rec, s.mem, w) EXCEPT !.copy = copy]
              ELSE NextSlot(copy)
    /\ UNCHANGED <<recFrame, faults, grace, misses, groups, clock>>

\* The swap of a drifted placement stops every run, then redispatches.
DriftStop ==
    /\ rec.pc = "drift"
    /\ \E missed \in Misses :
        /\ live' = Signalled(live, {l \in live : l.w \notin missed})
        /\ faults' = faults + Cardinality(missed)
    /\ Goto("claim")
    /\ UNCHANGED <<recFrame, pipe, mem, ids, rows, assign, grace, misses, groups, clock>>

DriftClaim ==
    /\ rec.pc = "claim"
    /\ rec' = IF rec.i \notin DOMAIN rec.copy.slots THEN [rec EXCEPT !.pc = "unplaced"]
              ELSE IF Current /\ pipe.exists /\ mem.slots[rec.i].w # None
              THEN Claimed(rec, mem, mem.slots[rec.i].w)
              ELSE [rec EXCEPT !.i = @ + 1]
    /\ UNCHANGED <<recFrame, faults, pipe, mem, ids, rows, assign, live, grace, misses,
                   groups, clock>>

\* Where a redispatch that failed or was committed goes on.
AfterRedispatch == IF rec.drift THEN "claim" ELSE "slots"

\* dispatch_to_worker, without the lock.
RecSend ==
    /\ rec.pc = "send"
    /\ \E a \in IF rec.w \in ok THEN Answers(rec.run, rec.w) ELSE {"refused"} :
        LET bad == a # "accepted" /\ rec.w \in up /\ rec.w \in ok
                     /\ \A l \in live : l.id # rec.run \/ l.w # rec.w
        IN  /\ faults + (IF bad THEN 1 ELSE 0) <= cfg.faults
            /\ faults' = faults + (IF bad THEN 1 ELSE 0)
            /\ live' = IF a = "refused" THEN live
                       ELSE live \cup {[Run(rec.run, rec.w, clock + 1) EXCEPT !.ver = rec.ver]}
            /\ clock' = IF a = "refused" THEN clock ELSE clock + 1
            /\ assign' = IF a = "accepted" THEN assign \cup {<<rec.run, rec.w>>} ELSE assign
            /\ rec' = IF a = "accepted" THEN [rec EXCEPT !.pc = "commit"]
                      ELSE [rec EXCEPT !.pc = AfterRedispatch, !.i = @ + 1]
    /\ UNCHANGED <<recFrame, pipe, mem, ids, rows, grace, misses, groups>>

\* The last locked section of redispatch_broadcast_slot.
RecCommit ==
    /\ rec.pc = "commit"
    /\ IF Current
       THEN LET slot == mem.slots[rec.i] IN
            /\ Becomes(SlotWritten(rec.i,
                 [slot EXCEPT !.run = rec.run, !.w = rec.w, !.status = "running",
                              !.restarts = @ + 1]))
            /\ grace' = grace \cup {rec.i}
            /\ rec' = [rec EXCEPT !.pc = AfterRedispatch, !.i = @ + 1,
                                  !.copy.slots[rec.i].status = "running"]
       ELSE /\ Becomes(Now)
            /\ rec' = [rec EXCEPT !.pc = AfterRedispatch, !.i = @ + 1]
            /\ UNCHANGED grace
    /\ UNCHANGED <<recFrame, faults, misses, groups, clock>>

\* The status of the placement, from the copy the pass worked on.
RecStatus ==
    LET slots == rec.copy.slots
        n     == Cardinality({i \in DOMAIN slots : slots[i].status = "running" /\ slots[i].run # <<>>})
        fair  == IF AllRunning(slots) THEN "running" ELSE "degraded"
    IN  /\ rec.pc = "slots" /\ rec.i \notin DOMAIN slots
        /\ \E aged \in BOOLEAN :
            LET st == IF cfg.count # All /\ n < cfg.count THEN "degraded"
                      ELSE IF rec.copy.status = "reconciling" /\ ~aged THEN "reconciling"
                      ELSE fair
            IN  IF st # rec.copy.status /\ Current
                THEN LET pl == [mem EXCEPT !.status = st]
                     IN Becomes([Now EXCEPT !.mem = pl, !.rows = Recorded(@, pl),
                                            !.pipe.status = IF pipe.exists THEN st ELSE @])
                ELSE Becomes(Now)
        /\ Goto("unplaced")
        /\ UNCHANGED <<recFrame, faults, grace, misses, groups, clock>>

\* _reconcile_unplaced_streams: bookkeeping for a run without a placement.
\* Mutant: a stream with a known run is taken to be executing.
CandidateForgotten ==
    pipe.exists /\ pipe.status = "running" /\ cfg.count = 1 /\ mem.group = 0 /\ ids = {}

Candidate == pipe.exists /\ pipe.status = "running" /\ cfg.count = 1 /\ mem.group = 0

\* The candidates, and the misses of one that shows no sign of life.
RecUnplaced ==
    /\ rec.pc = "unplaced"
    /\ misses' = IF Candidate /\ rec.snap = {} /\ fresh = {} THEN misses + 1 ELSE 0
    /\ rec' = IF misses' = 2 THEN [rec EXCEPT !.pc = "recover"]
              ELSE IF Candidate /\ rec.snap # {} THEN [rec EXCEPT !.pc = "adopt"]
              ELSE Idle
    /\ UNCHANGED <<recFrame, faults, pipe, mem, ids, rows, assign, live, grace, groups, clock>>

\* adopt_unplaced_stream_bookkeeping of the live run x.
Adopt(x) ==
    IF ~pipe.exists \/ mem.group # 0 THEN Now
    ELSE IF cfg.placed THEN Materialized(Now, x)
    ELSE WithStatus([Now EXCEPT !.ids = @ \cup {x.id},
                                !.assign = IF \E a \in @ : a[1] = x.id THEN @ ELSE @ \cup {<<x.id, x.w>>}],
                    "running")

\* The earliest live run is the stream's, whatever came in between.
RecAdopt ==
    /\ rec.pc = "adopt"
    /\ Becomes(Adopt(Earliest(rec.snap)))
    /\ IF mem'.group # mem.group
       THEN groups' = groups + 1 /\ grace' = {1} ELSE UNCHANGED <<groups, grace>>
    /\ rec' = IF Cardinality(rec.snap) > 1 THEN [rec EXCEPT !.pc = "extra"] ELSE Idle
    /\ UNCHANGED <<recFrame, faults, misses, clock>>

\* The other live runs are told to stop, where the pool knows their workers.
RecStopExtra ==
    /\ rec.pc = "extra"
    /\ live' = Signalled(live, {l \in live \cap rec.snap :
                    l # Earliest(rec.snap) /\ <<l.id, l.w>> \in assign})
    /\ rec' = Idle
    /\ UNCHANGED <<recFrame, faults, pipe, mem, ids, rows, assign, grace, misses, groups, clock>>

\* recover_unplaced_stream.
Recovered ==
    IF ~pipe.exists \/ mem.group # 0
    THEN Becomes(Now) /\ UNCHANGED <<faults, groups, clock, grace>>
    ELSE IF may_schedule
    THEN StartStream([Now EXCEPT !.ids = {}], 0)
    ELSE /\ Becomes([WithStatus(Now, "stopped") EXCEPT !.ids = {}])
         /\ UNCHANGED <<faults, groups, clock, grace>>

\* After two passes without a sign of life the stream is started again.
RecRecover ==
    /\ rec.pc = "recover"
    /\ Recovered
    /\ rec' = Idle /\ misses' = 0
    /\ UNCHANGED recFrame

-----------------------------------------------------------------------------
Operate == start_pipeline \/ stop_pipeline \/ restart_pipeline \/ update \/ delete

Reconcile ==
    \/ RecSnapshot \/ RecCopy \/ RecLive \/ RecReported \/ RecStale \/ DriftStop
    \/ DriftClaim \/ RecSend \/ RecCommit \/ RecStatus \/ RecUnplaced \/ RecAdopt
    \/ RecStopExtra \/ RecRecover

Deliver == \E c \in done : RunComplete(c)

Stopping == \E l \in live : RunStops(l)

Recovers == \E w \in Workers : WorkerBoot(w) \/ PollUp(w)

Next ==
    \/ Operate
    \/ Crash \/ CrashInStart \/ Boot
    \/ Reconcile
    \/ Deliver \/ Stopping \/ Recovers \/ Expire \/ GraceEnds
    \/ \E l \in live : Stats(l) \/ \E b \in BOOLEAN : RunEnds(l, b)
    \/ \E w \in Workers : WorkerCrash(w) \/ PollDown(w)

Fairness ==
    /\ WF_vars(Boot) /\ WF_vars(Reconcile) /\ WF_vars(Deliver) /\ WF_vars(Stopping)
    /\ WF_vars(Recovers) /\ SF_vars(Expire) /\ SF_vars(GraceEnds)

Spec == Init /\ [][Next]_vars /\ Fairness

-----------------------------------------------------------------------------
Statuses == {"running", "degraded", "reconciling", "stopped", "error"}
Slots == [w : Workers \cup {None}, prefix : Seq(Nat), run : Seq(Nat),
          status : {"running", "stale"}, restarts : Nat]
PlacementType == [group : Nat, slots : Seq(Slots), status : Statuses]
RunType == [id : Seq(Nat), w : Workers, ver : Nat, at : Nat, stop : BOOLEAN]

TypeOK ==
    /\ pipe \in [exists : BOOLEAN, status : Statuses \cup {"down"}, ver : Nat,
                 flag : {"running", "stopped"}, desired : {"running", "stopped", "deleted"}]
    /\ mem \in PlacementType
    /\ \A r \in rows : r \in PlacementType
    /\ \A l \in live : l \in RunType
    /\ ok \subseteq Workers /\ up \subseteq Workers
    /\ misses \in 0..2

\* The runs of slot i that nobody has asked to stop.
RunsOf(i) == {l \in live : /\ ~l.stop /\ IsPrefix(mem.slots[i].prefix, l.id)
                           /\ Len(l.id) - Len(mem.slots[i].prefix) \in {0, 2}}

\* Faults after which a run executes that the manager cannot know of.
Untracked == {"lost", "stopfail", "probefail", "partition", "crashsend"}

\* No slot's number begins with another's: fewer than eleven slots.
Distinct == \A i, j \in DOMAIN cfg.digits : i # j => ~IsPrefix(cfg.digits[i], cfg.digits[j])

\* The placement in memory and the only active row of the pipeline name the
\* same runs whenever the lifecycle lock is free, lost compare-and-sets of the
\* statistics path included: a restart of the manager resumes what it had.  With
\* fewer than eleven slots they are the same, and no two slots have one run.
DurablePlacement ==
    /\ TypeOK
    /\ Cardinality(rows) <= 1
    /\ mem.group # 0 => \E r \in rows :
        /\ r.group = mem.group
        /\ \A i \in DOMAIN mem.slots : r.slots[i].run = mem.slots[i].run
        /\ Distinct => /\ r = mem
                       /\ \A i, j \in DOMAIN mem.slots :
                            i # j /\ mem.slots[i].run # <<>> => mem.slots[i].run # mem.slots[j].run

\* While every answer, stop and probe comes through, a slot is executed by one
\* run at most and a run id is never given to two: the reconciler, acting on a
\* snapshot and a copy that commands, callbacks and restarts overtake, never
\* redispatches a slot whose run is executing.  A run that no placement accounts
\* for can only be a redispatch that a stop overtook: first dispatches, restarts,
\* updates and boots leave no run behind.
SlotRunsOnce ==
    cfg.may \cap Untracked = {} =>
        /\ \A i \in DOMAIN mem.slots : Cardinality(RunsOf(i)) <= 1
        /\ \A l, x \in live : l.id = x.id => l = x
        /\ cfg.placed /\ pipe.status # "down" /\ "crashstart" \notin cfg.may =>
            \A l \in live :
                \/ l.stop \/ RestartCount(l.id) > 0
                \/ \E i \in DOMAIN mem.slots : l \in RunsOf(i)

\* Boot never takes a stream that is executing for a stopped one (but see
\* restart_pipeline, which leaves the desired state of an earlier stop).
BootSeesLive ==
    [][ /\ cfg.placed /\ cfg.may \cap Untracked = {} /\ "restart" \notin cfg.commands
        /\ pipe.status = "down" /\ pipe'.status = "stopped"
        => \A l \in live : l.stop \/ RestartCount(l.id) > 0 ]_vars

\* A redispatch of slot i that the manager does not know of is executing: its
\* answer was lost, or the manager died before the commit.  The next one has
\* the same id, which the worker refuses.
Ahead(i) ==
    \E l \in live : l.id = mem.slots[i].prefix \o <<R, mem.slots[i].restarts + 1>>

\* Once commands and faults have ended, every slot of the placement, and every
\* stream without one that is called running, is executed by the run recorded
\* for it, or by a redispatch the manager does not know of.
Heals ==
    <>[](pipe.status = "down" \/
         /\ \A i \in DOMAIN mem.slots :
                Ahead(i) \/ \E l \in live : l.id = mem.slots[i].run /\ ~l.stop
         /\ pipe.status = "running" /\ mem.group = 0 => \E l \in live : l.id \in ids)
=============================================================================
