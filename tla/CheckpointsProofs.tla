------------------------- MODULE CheckpointsProofs -------------------------
(* Proofs about Checkpoints for every number of units, attempts, updates   *)
(* and faults, and every pipeline configuration.                           *)
EXTENDS Checkpoints, WellFoundedInduction, TLAPS

-----------------------------------------------------------------------------
(* The inductive invariant.                                                *)

\* Runs work on, and commit, units of the source; the second writer needs an
\* overlap.
RunsFit ==
    /\ \A u \in Units : ckpt[u] > 0 => u <= arrived
    /\ \A w \in Writers : run[w].pc \in {"post", "ack", "bare"} => run[w].cur \in Units
    /\ ~cfg.overlap => run[2] = NoRun

\* What a strict pipeline acknowledges, or is about to acknowledge, as DELIVERED
\* has a checkpoint row.
StrictFits ==
    cfg.strict =>
        /\ \A u \in acked \ bare : ckpt[u] > 0
        /\ \A w \in Writers : run[w].pc = "ack" => ckpt[run[w].cur] > 0

\* As long as no GET and no attempt has failed, the state row and the memory of
\* the run hold every unit that has a checkpoint row.
Covered ==
    /\ Absent => \A u \in Units : ckpt[u] = 0
    /\ \A u \in Units : ckpt[u] > 0 => row.state[u] >= 1
    /\ run[1].pc # "idle" => \A u \in Units : ckpt[u] > 0 => run[1].mem[u] >= 1
    /\ run[1].pc = "post" => run[1].mem[run[1].cur] >= 1

\* As long as runs only crash, and but for the units acknowledged outside the
\* gate: a unit is absorbed once it is committed; units are decided in order, so
\* at most one is committed and not acknowledged, and its revision is the
\* current one; the run knows that revision.
Exact ==
    /\ \A u \in Units \ bare : row.state[u] = IF ckpt[u] > 0 THEN 1 ELSE 0
    /\ Absent => row = NoRow
    /\ ~Absent => row.gen \in {0, 1}
    /\ \A u \in Units : ckpt[u] > 0 => u \in acked \/ ckpt[u] = row.rev
    /\ \A u, v \in Units : ckpt[u] > 0 /\ v < u => v \in acked
    /\ run[1].pc # "idle" =>
        /\ run[1].base = row.rev
        /\ run[1].todo \cap acked = {}
        /\ \A t \in run[1].todo, v \in 1..arrived :
              v < t => \/ v \in acked \cup run[1].todo
                       \/ run[1].pc # "work" /\ v = run[1].cur
    /\ run[1].pc \in {"work", "ack"} =>
        \A u \in Units \ bare : run[1].mem[u] = row.state[u]
    /\ run[1].pc = "bare" =>
        \A u \in Units \ bare : u # run[1].cur => run[1].mem[u] = row.state[u]
    /\ run[1].pc = "work" =>
        \A u \in Units : ckpt[u] > 0 => u \in acked \cup run[1].todo
    /\ run[1].pc \in {"post", "ack", "bare"} =>
        /\ run[1].cur \notin run[1].todo
        /\ \A u \in Units : ckpt[u] > 0 => u \in acked \cup run[1].todo \cup {run[1].cur}
        /\ \A v \in Units : v < run[1].cur => v \in acked
    /\ run[1].pc = "post" =>
        /\ run[1].cur \notin acked
        /\ \A u \in Units \ bare : run[1].mem[u] =
              IF u = run[1].cur THEN row.state[u] + 1 ELSE row.state[u]

Watched == Alone /\ cfg.strict

Inv ==
    /\ TypeOK /\ RunsFit /\ StrictFits
    /\ Watched /\ OnlyHurt({"crash", "lost", "ack", "put", "open"}) => Covered
    /\ Watched /\ OnlyHurt({"crash"}) => Exact

-----------------------------------------------------------------------------
\* The first configuration satisfies the invariant.
LEMMA InitInv == Init => Inv
<1> SUFFICES ASSUME Init PROVE Inv
  BY Zenon
<1>1. /\ cfg \in Configs /\ gen = 1 /\ row = NoRow /\ ckpt = Zero /\ arrived = 1
      /\ acked = {} /\ bare = {} /\ open = {} /\ run = [w \in Writers |-> NoRun]
      /\ hurt = [left |-> cfg.faults, kinds |-> {}]
  BY Zenon DEF Init
<1>2. TypeOK
  BY <1>1, CheckpointConstants DEF TypeOK, NoRow, Zero, Units, NoRun
<1>3. \A w \in Writers : run[w] = NoRun /\ run[w].pc = "idle"
  BY Zenon, <1>1 DEF NoRun
<1>4. RunsFit /\ StrictFits
  BY <1>1, <1>3 DEF RunsFit, StrictFits, Writers, Zero
<1>5. Covered
  BY <1>1, <1>3 DEF Covered, Zero, Writers
<1>6. Exact
  BY <1>1, <1>3 DEF Exact, Zero, Writers, NoRow, Absent
<1> QED
  BY Zenon, <1>2, <1>4, <1>5, <1>6 DEF Inv

\* A run that is not idle is a full record.
LEMMA RunFacts ==
    ASSUME TypeOK, NEW w \in Writers, run[w].pc # "idle"
    PROVE  run[w] \in RunType
BY DEF TypeOK, NoRun

\* Only units are acknowledged.
LEMMA AckedUnits == ASSUME TypeOK PROVE acked \subseteq Units
<1>1. arrived \in 1..NUnits /\ acked \subseteq 1..arrived
  BY Zenon DEF TypeOK, Units
<1> QED
  BY <1>1, CheckpointConstants DEF Units

\* Without an overlap the run is the first writer's.
LEMMA OneWriter ==
    ASSUME Inv, NEW w \in Writers, run[w].pc # "idle", ~cfg.overlap
    PROVE  w = 1
BY DEF Inv, RunsFit, Writers, NoRun

\* The type of a run only depends on the generation and the source.
LEMMA RunTypes ==
    ASSUME TypeOK, NEW w \in Writers, NEW new, new \in RunType' \cup {NoRun},
           gen' \in Nat, gen' >= gen, arrived' \in Nat, arrived' >= arrived,
           run' = [run EXCEPT ![w] = new]
    PROVE  run' \in [Writers -> RunType \cup {NoRun}]'
<1>1. gen \in Nat /\ arrived \in Nat
  BY DEF TypeOK, Units
<1>2. 1..gen \subseteq 1..gen' /\ 0..arrived \subseteq 0..arrived' /\ 1..arrived \subseteq 1..arrived'
  BY <1>1
<1>3. RunType \subseteq RunType'
  BY Zenon, <1>2 DEF RunType, Units
<1> QED
  BY Zenon, <1>3 DEF TypeOK, Writers, NoRun

\* The least unit of a set.
LEMMA LeastUnit ==
    ASSUME NEW S \in SUBSET Nat, S # {}
    PROVE  Min(S) \in S /\ \A x \in S : Min(S) <= x
<1> DEFINE R == {p \in Nat \X Nat : p[1] < p[2]}
<1>1. IsWellFoundedOn(R, Nat)
  BY Zenon, NatLessThanWellFounded DEF OpToRel
<1>2. PICK m \in S : \A y \in S : <<y, m>> \notin R
  <2> HIDE DEF R
  <2> QED
    BY Zenon, <1>1, WFMin
<1>3. ASSUME NEW y \in S PROVE m <= y
  <2>1. y < m => <<y, m>> \in R
    BY Zenon
  <2> QED
    BY <1>2, <2>1
<1> QED
  BY Zenon, <1>3 DEF Min

\* A crash, or the end of a run that saves nothing, leaves no trace.
LEMMA RunGone ==
    ASSUME Inv, NEW w \in Writers, run' = [run EXCEPT ![w] = NoRun],
           UNCHANGED <<cfg, gen, row, ckpt, arrived, acked, bare, open>>,
           hurt' \in [left : Nat, kinds : SUBSET Kinds], hurt.kinds \subseteq hurt'.kinds
    PROVE  Inv'
<1>1. TypeOK'
  <2>0. /\ TypeOK /\ NoRun \in RunType' \cup {NoRun}
        /\ gen' \in Nat /\ gen' >= gen /\ arrived' \in Nat /\ arrived' >= arrived
    BY DEF Inv, TypeOK, Units
  <2>1. run' \in [Writers -> RunType \cup {NoRun}]'
    BY Zenon, <2>0, RunTypes
  <2> QED
    BY Zenon, <2>1 DEF Inv, TypeOK
<1>2. \A x \in Writers : run'[x] = run[x] \/ (run'[x] = NoRun /\ run'[x].pc = "idle")
  BY Zenon DEF Inv, TypeOK, NoRun
<1>3. RunsFit' /\ StrictFits'
  BY <1>2 DEF Inv, RunsFit, StrictFits, Writers
<1>4. ASSUME Covered PROVE Covered'
  BY <1>2, <1>4 DEF Covered, Absent, Writers
<1>5. ASSUME Exact PROVE Exact'
  BY <1>2, <1>5 DEF Exact, Absent, Writers
<1> QED
  BY Zenon, <1>1, <1>3, <1>4, <1>5 DEF Inv, Watched, Alone, OnlyHurt

\* A crash of the run keeps the invariant.
LEMMA CrashInv == ASSUME Inv, NEW w \in Writers, CrashRun(w) PROVE Inv'
<1>1. /\ hurt' \in [left : Nat, kinds : SUBSET Kinds] /\ hurt.kinds \subseteq hurt'.kinds
      /\ run' = [run EXCEPT ![w] = NoRun]
  BY DEF CrashRun, Hurts, Inv, TypeOK, Kinds
<1> QED
  BY Zenon, <1>1, RunGone DEF CrashRun

\* A step of one run within a generation keeps the types.
LEMMA StepTypes ==
    ASSUME TypeOK, NEW w \in Writers, NEW new \in RunType \cup {NoRun},
           run' = [run EXCEPT ![w] = new], UNCHANGED <<cfg, gen, arrived>>,
           row' \in [gen : 0..gen, rev : Nat, sha : 0..gen, state : [Units -> 0..2]],
           ckpt' \in [Units -> Nat], acked' \subseteq 1..arrived,
           bare' \subseteq acked', open' \subseteq Units,
           hurt' \in [left : Nat, kinds : SUBSET Kinds]
    PROVE  TypeOK'
<1>1. RunType' = RunType
  BY Zenon DEF RunType
<1>2. run' \in [Writers -> RunType \cup {NoRun}]
  BY Zenon DEF TypeOK
<1> QED
  BY Zenon, <1>1, <1>2 DEF TypeOK

\* Faults are of the known kinds, and remembered.
LEMMA HurtFacts ==
    ASSUME TypeOK, NEW k \in Kinds, Hurts(k)
    PROVE  /\ hurt' \in [left : Nat, kinds : SUBSET Kinds]
           /\ hurt'.kinds = hurt.kinds \cup {k}
BY DEF TypeOK, Hurts

\* A new run hydrates the state row.
LEMMA StartInv == ASSUME Inv, NEW w \in Writers, StartRun(w) PROVE Inv'
<1>0. /\ TypeOK /\ run[w].pc = "idle" /\ UNCHANGED <<cfg, gen, row, ckpt, arrived, acked, bare, open>>
      /\ gen \in Nat \ {0} /\ acked \subseteq 1..arrived /\ arrived \in 1..NUnits
      /\ row \in [gen : 0..gen, rev : Nat, sha : 0..gen, state : [Units -> 0..2]]
  BY Zenon DEF Inv, StartRun, TypeOK, Units
<1>1. PICK got \in BOOLEAN :
        /\ IF got THEN UNCHANGED hurt ELSE cfg.stateful /\ Hurts("get")
        /\ run' = [run EXCEPT ![w] =
              [pc |-> "work", gen |-> gen, base |-> Hydrated([gen |-> gen], got).rev,
               mem |-> Hydrated([gen |-> gen], got).state, snap |-> Hydrated([gen |-> gen], got),
               todo |-> Waiting, cur |-> 0, attempt |-> 1]]
  BY Zenon DEF StartRun
<1> DEFINE h == Hydrated([gen |-> gen], got)
           new == [pc |-> "work", gen |-> gen, base |-> h.rev, mem |-> h.state, snap |-> h,
                   todo |-> Waiting, cur |-> 0, attempt |-> 1]
<1>2. h = IF cfg.stateful /\ got /\ ~Absent /\ row.sha = gen
          THEN [state |-> row.state, rev |-> row.rev] ELSE [state |-> Zero, rev |-> 0]
  BY Zenon DEF Hydrated
<1>3. h \in [state : [Units -> 0..2], rev : Nat]
  BY <1>0, <1>2 DEF Zero
<1> HIDE DEF h
<1>4. new \in RunType
  BY <1>0, <1>3, CheckpointConstants DEF RunType, Waiting
<1>5. /\ new.pc = "work" /\ new.todo = Waiting /\ new.mem = h.state /\ new.base = h.rev
      /\ run' = [run EXCEPT ![w] = new]
  BY Zenon, <1>1 DEF h
<1> HIDE DEF new
<1>6. /\ hurt' \in [left : Nat, kinds : SUBSET Kinds] /\ hurt.kinds \subseteq hurt'.kinds
      /\ got \/ "get" \in hurt'.kinds
  BY ZenonT(60), <1>0, <1>1, HurtFacts DEF Kinds, TypeOK
<1>7. TypeOK'
  BY Zenon, <1>0, <1>4, <1>5, <1>6, StepTypes DEF TypeOK
<1>8. \A x \in Writers : run'[x] = IF x = w THEN new ELSE run[x]
  BY Zenon, <1>0, <1>5 DEF TypeOK
<1>9. RunsFit'
  BY <1>0, <1>5, <1>8 DEF Inv, RunsFit, Writers, StartRun
<1>10. StrictFits'
  BY Zenon, <1>0, <1>5, <1>8 DEF Inv, StrictFits
<1>11. ASSUME (Watched /\ OnlyHurt({"crash", "lost", "ack", "put", "open"}))'
       PROVE  /\ w = 1 /\ run'[1] = new /\ Covered
              /\ h = IF Absent THEN [state |-> Zero, rev |-> 0]
                     ELSE [state |-> row.state, rev |-> row.rev]
  <2>1. Watched /\ OnlyHurt({"crash", "lost", "ack", "put", "open"}) /\ got
    BY Zenon, <1>0, <1>6, <1>11 DEF Watched, Alone, OnlyHurt
  <2>2. w = 1 /\ run'[1] = new
    BY Zenon, <2>1, <1>8 DEF Watched, Alone, StartRun, Writers
  <2> QED
    BY <1>0, <1>2, <2>1, <2>2 DEF Inv, Watched, Alone, Absent
<1>12. ASSUME (Watched /\ OnlyHurt({"crash", "lost", "ack", "put", "open"}))' PROVE Covered'
  BY <1>0, <1>5, <1>11, <1>12 DEF Covered, Absent, Zero
<1>13. ASSUME (Watched /\ OnlyHurt({"crash"}))' PROVE Exact'
  <2>1. Watched /\ OnlyHurt({"crash"}) /\ (OnlyHurt({"crash", "lost", "ack", "put", "open"}))'
    BY Zenon, <1>0, <1>6, <1>13 DEF Watched, Alone, OnlyHurt
  <2>2. Exact
    BY Zenon, <2>1 DEF Inv
  <2>3. /\ w = 1 /\ run'[1] = new
        /\ h = IF Absent THEN [state |-> Zero, rev |-> 0]
               ELSE [state |-> row.state, rev |-> row.rev]
    BY Zenon, <1>11, <1>13, <2>1
  <2>4. new.mem = row.state /\ new.base = row.rev
    BY <1>5, <2>2, <2>3 DEF Exact, NoRow
  <2>5. \A u \in Units : ckpt[u] > 0 => u \in acked \cup Waiting
    BY <1>0 DEF Inv, RunsFit, Waiting, Units
  <2> QED
    BY Zenon, <1>0, <1>5, <2>2, <2>3, <2>4, <2>5 DEF Exact, Absent, Waiting
<1> QED
  BY Zenon, <1>7, <1>9, <1>10, <1>12, <1>13 DEF Inv

\* The next unit of a run is the least one left.
LEMMA DeliverInv == ASSUME Inv, NEW w \in Writers, NEW end \in Ends, Deliver(w, end) PROVE Inv'
<1> DEFINE r == run[w]
           u == Min(r.todo)
           new == [r EXCEPT !.pc = AfterPass(end), !.cur = u, !.todo = r.todo \ {u},
                            !.mem = Absorbed(r.mem, u)]
<1>0. /\ TypeOK /\ UNCHANGED <<cfg, gen, row, ckpt, arrived, acked, bare>>
      /\ r.pc = "work" /\ r.todo # {} /\ run' = [run EXCEPT ![w] = new]
      /\ open' = IF end = "open" THEN open \cup {u} ELSE open \ {u}
      /\ hurt' = IF end = "open" THEN [hurt EXCEPT !.kinds = @ \cup {"open"}] ELSE hurt
  BY Zenon DEF Inv, Deliver
<1>1. /\ r \in RunType /\ r.todo \subseteq 1..arrived /\ r.mem \in [Units -> 0..2]
      /\ arrived \in 1..NUnits /\ arrived \in Nat /\ NUnits \in Nat
  <2>1. r \in RunType
    BY Zenon, <1>0, RunFacts
  <2>2. arrived \in 1..NUnits
    BY Zenon, <1>0 DEF TypeOK, Units
  <2> QED
    BY <2>1, <2>2, CheckpointConstants DEF RunType
<1>2. u \in r.todo /\ (\A x \in r.todo : u <= x) /\ u \in 1..arrived /\ u \in Units
  <2>1. r.todo \in SUBSET Nat
    BY <1>1
  <2>2. u \in r.todo /\ \A x \in r.todo : u <= x
    BY Zenon, <1>0, <2>1, LeastUnit
  <2> HIDE DEF u
  <2> QED
    BY <1>1, <2>2 DEF Units
<1> HIDE DEF u
<1>p. /\ AfterPass(end) \in {"post", "bare", "work"} /\ AfterPass(end) # "idle"
      /\ AfterPass(end) # "ack" /\ (AfterPass(end) = "work" => end = "open")
  BY DEF AfterPass, Ends
<1>h. /\ hurt' \in [left : Nat, kinds : SUBSET Kinds] /\ hurt.kinds \subseteq hurt'.kinds
      /\ (end = "open" => "open" \in hurt'.kinds)
  BY <1>0 DEF TypeOK, Kinds
<1>3. /\ new \in RunType /\ new.pc = AfterPass(end) /\ new.cur = u /\ new.todo = r.todo \ {u}
      /\ new.base = r.base
      /\ \A v \in Units : new.mem[v] = IF v # u THEN r.mem[v]
                                       ELSE IF r.mem[u] < 2 THEN r.mem[u] + 1 ELSE 2
  <2>1. Absorbed(r.mem, u) \in [Units -> 0..2]
    BY <1>1, <1>2 DEF Absorbed
  <2> HIDE DEF r
  <2>a. u \in 0..arrived /\ r.todo \ {u} \in SUBSET (1..arrived) /\ r \in RunType
    BY <1>1, <1>2
  <2>0. new \in RunType
    BY Zenon, <1>p, <2>a, <2>1 DEF RunType
  <2>2. /\ new.pc = AfterPass(end) /\ new.cur = u /\ new.todo = r.todo \ {u}
        /\ new.base = r.base /\ new.mem = Absorbed(r.mem, u)
    BY Zenon, <1>1 DEF RunType
  <2>3. \A v \in Units : new.mem[v] = IF v # u THEN r.mem[v]
                                       ELSE IF r.mem[u] < 2 THEN r.mem[u] + 1 ELSE 2
    BY <1>1, <1>2, <2>2 DEF Absorbed
  <2> QED
    BY Zenon, <2>0, <2>2, <2>3
<1> HIDE DEF new
<1>4. TypeOK'
  <2>1. open' \subseteq Units /\ acked' \subseteq 1..arrived /\ bare' \subseteq acked'
    BY Zenon, <1>0, <1>2 DEF TypeOK
  <2> QED
    BY Zenon, <1>0, <1>3, <1>h, <2>1, StepTypes DEF TypeOK
<1>5. \A x \in Writers : run'[x] = IF x = w THEN new ELSE run[x]
  BY Zenon, <1>0 DEF TypeOK
<1>6. RunsFit' /\ StrictFits'
  <2>1. ~cfg.overlap => w # 2
    BY <1>0, OneWriter
  <2>2. RunsFit /\ StrictFits
    BY Zenon DEF Inv
  <2>3. RunsFit'
    BY <1>0, <1>2, <1>3, <1>5, <2>1, <2>2 DEF RunsFit
  <2>4. StrictFits'
    BY Zenon, <1>0, <1>3, <1>5, <1>p, <2>2 DEF StrictFits
  <2> QED
    BY Zenon, <2>3, <2>4
<1>7. ASSUME Watched' PROVE Watched /\ w = 1 /\ run'[1] = new /\ r = run[1]
  <2>1. Watched /\ ~cfg.overlap
    BY Zenon, <1>0, <1>7 DEF Watched, Alone
  <2>2. w = 1
    BY Zenon, <1>0, <2>1, OneWriter
  <2> QED
    BY Zenon, <1>5, <2>1, <2>2
<1>8. ASSUME (Watched /\ OnlyHurt({"crash", "lost", "ack", "put", "open"}))' PROVE Covered'
  <2>1. Covered /\ run'[1] = new /\ r = run[1]
    BY Zenon, <1>h, <1>7, <1>8 DEF Inv, OnlyHurt
  <2>2. r.mem \in [Units -> 0..2]
    BY Zenon, <1>1 DEF RunType
  <2>3. \A v \in Units : r.mem[v] >= 1 => new.mem[v] >= 1
    BY <1>3, <2>2
  <2>4. new.mem[u] >= 1
    BY <1>2, <1>3, <2>2
  <2> QED
    BY Zenon, <1>0, <1>3, <2>1, <2>3, <2>4 DEF Covered, Absent
<1>9. ASSUME (Watched /\ OnlyHurt({"crash"}))' PROVE Exact'
  <2>0. AfterPass(end) \in {"post", "bare"}
    BY Zenon, <1>h, <1>p, <1>9 DEF OnlyHurt
  <2>1. Exact /\ run'[1] = new /\ r = run[1]
    BY Zenon, <1>h, <1>7, <1>9 DEF Inv, OnlyHurt
  <2>3. \A v \in Units : v < u => v \in acked
    <3>1. ASSUME NEW v \in Units, v < u PROVE v \in acked
      <4>1. v \in 1..arrived /\ ~(u <= v)
        BY <1>1, <1>2, <3>1 DEF Units
      <4>2. v \in acked \cup r.todo
        BY Zenon, <1>0, <1>2, <2>1, <3>1, <4>1 DEF Exact
      <4> QED
        BY Zenon, <1>2, <4>1, <4>2
    <3> QED
      BY Zenon, <3>1
  <2>4. u \notin acked /\ u \notin bare
    BY Zenon, <1>0, <1>2, <2>1 DEF Exact, TypeOK
  <2>5. \A v \in Units \ bare : r.mem[v] = row.state[v] /\ row.state[v] \in {0, 1}
    BY Zenon, <1>0, <2>1 DEF Exact
  <2>6. \A v \in Units \ bare :
            new.mem[v] = IF v = new.cur THEN row.state[v] + 1 ELSE row.state[v]
    <3>1. ASSUME NEW v \in Units \ bare, v # u PROVE new.mem[v] = row.state[v]
      BY Zenon, <1>3, <2>5, <3>1
    <3>2. row.state[u] \in {0, 1} /\ new.cur = u
          /\ new.mem[u] = IF row.state[u] < 2 THEN row.state[u] + 1 ELSE 2
      BY Zenon, <1>2, <1>3, <2>4, <2>5
    <3>3. new.mem[u] = row.state[u] + 1
      <4>1. row.state[u] < 2
        BY <3>2
      <4> QED
        BY Zenon, <3>2, <4>1
    <3> QED
      BY Zenon, <3>1, <3>2, <3>3
  <2>7. /\ new.base = row.rev /\ new.todo \cap acked = {}
        /\ \A t \in new.todo, v \in 1..arrived :
              v < t => v \in acked \cup new.todo \/ v = new.cur
        /\ new.cur \notin new.todo
        /\ \A x \in Units : ckpt[x] > 0 => x \in acked \cup new.todo \cup {new.cur}
    BY Zenon, <1>0, <1>2, <1>3, <2>1 DEF Exact
  <2>8. new.pc \in {"post", "bare"} /\ new.pc # "work" /\ new.pc # "ack" /\ new.cur = u
    BY <1>3, <2>0
  <2>9. /\ \A v \in Units \ bare : row.state[v] = IF ckpt[v] > 0 THEN 1 ELSE 0
        /\ Absent => row = NoRow
        /\ ~Absent => row.gen \in {0, 1}
        /\ \A v \in Units : ckpt[v] > 0 => v \in acked \/ ckpt[v] = row.rev
        /\ \A v, x \in Units : ckpt[v] > 0 /\ x < v => x \in acked
    BY Zenon, <2>1 DEF Exact
  <2> QED
    <3>1. /\ run'[1] = new /\ new.pc # "idle" /\ new.cur = u
          /\ UNCHANGED <<row, ckpt, arrived, acked, bare>> /\ (Absent' <=> Absent)
      BY Zenon, <1>0, <1>3, <1>p, <2>1 DEF Absent
    <3>2. new.pc = "bare" => \A v \in Units \ bare : v # new.cur => new.mem[v] = row.state[v]
      BY Zenon, <2>6
    <3>3. \A v \in Units : v < new.cur => v \in acked
      BY Zenon, <2>3, <3>1
    <3> QED
      BY Zenon, <2>4, <2>6, <2>7, <2>8, <2>9, <3>1, <3>2, <3>3 DEF Exact
<1> QED
  BY Zenon, <1>4, <1>6, <1>8, <1>9 DEF Inv

\* The facts about a run that posts its checkpoint.
LEMMA PostFacts ==
    ASSUME Inv, NEW w \in Writers, run[w].pc = "post"
    PROVE  /\ run[w] \in RunType /\ run[w].cur \in Units /\ run[w].cur \in 1..arrived
           /\ run[w].base \in Nat /\ run[w].gen \in 1..gen /\ run[w].mem \in [Units -> 0..2]
           /\ ckpt \in [Units -> Nat] /\ gen \in Nat \ {0} /\ arrived \in Nat
           /\ row \in [gen : 0..gen, rev : Nat, sha : 0..gen, state : [Units -> 0..2]]
<1>1. TypeOK
  BY Zenon DEF Inv
<1>2. run[w] \in RunType /\ run[w].cur \in Units
  BY Zenon, <1>1, RunFacts DEF Inv, RunsFit
<1>3. /\ ckpt \in [Units -> Nat] /\ gen \in Nat \ {0} /\ arrived \in Nat
      /\ row \in [gen : 0..gen, rev : Nat, sha : 0..gen, state : [Units -> 0..2]]
  BY <1>1 DEF TypeOK, Units
<1>4. /\ run[w].cur \in 0..arrived
      /\ run[w].base \in Nat /\ run[w].gen \in 1..gen /\ run[w].mem \in [Units -> 0..2]
  BY Zenon, <1>2 DEF RunType
<1>5. run[w].cur \in 1..arrived
  BY <1>2, <1>3, <1>4 DEF Units
<1> QED
  BY Zenon, <1>2, <1>3, <1>4, <1>5

\* The manager commits the unit, and the run hears of it or not.
LEMMA CommittedInv ==
    ASSUME Inv, NEW w \in Writers, run[w].pc = "post",
           Outcome(run[w]) = "committed", CommitAtomic(run[w]),
           NEW new \in RunType, new.pc \in {"work", "ack"}, new.mem = run[w].mem,
           new.todo = run[w].todo, new.cur = run[w].cur,
           run' = [run EXCEPT ![w] = new], UNCHANGED <<cfg, gen, arrived, acked, bare, open>>,
           hurt' \in [left : Nat, kinds : SUBSET Kinds], hurt.kinds \subseteq hurt'.kinds,
           \/ "lost" \in hurt'.kinds
           \/ new.pc = "ack" /\ new.base = run[w].base + 1
    PROVE  Inv'
<1> DEFINE r == run[w]
           u == r.cur
<1>0. /\ r \in RunType /\ u \in Units /\ u \in 1..arrived /\ r.base \in Nat /\ r.gen \in 1..gen
      /\ r.mem \in [Units -> 0..2] /\ ckpt \in [Units -> Nat]
      /\ gen \in Nat \ {0} /\ arrived \in Nat
      /\ row \in [gen : 0..gen, rev : Nat, sha : 0..gen, state : [Units -> 0..2]]
  BY Zenon, PostFacts
<1>1. ckpt[u] = 0 /\ (Absent \/ (row.rev = r.base /\ row.gen \in {0, r.gen}))
  BY <1>0 DEF Outcome, Duplicate, Fenced
<1>2. /\ ckpt' = [ckpt EXCEPT ![u] = r.base + 1]
      /\ row' = [gen |-> r.gen, rev |-> IF Absent THEN 1 ELSE row.rev + 1,
                 sha |-> r.gen, state |-> r.mem]
  BY Zenon DEF CommitAtomic
<1> HIDE DEF u
<1>3. /\ ckpt' \in [Units -> Nat] /\ ckpt'[u] = r.base + 1
      /\ \A v \in Units \ {u} : ckpt'[v] = ckpt[v]
  BY <1>0, <1>2
<1>4. /\ row' \in [gen : 0..gen, rev : Nat, sha : 0..gen, state : [Units -> 0..2]]
      /\ row'.gen = r.gen /\ row'.sha = r.gen /\ row'.state = r.mem
      /\ row'.rev = IF Absent THEN 1 ELSE row.rev + 1
  <2>1. r.gen \in 0..gen /\ (IF Absent THEN 1 ELSE row.rev + 1) \in Nat
    BY <1>0
  <2> QED
    BY Zenon, <1>0, <1>2, <2>1
<1>5. TypeOK'
  BY Zenon, <1>3, <1>4, StepTypes DEF Inv, TypeOK
<1>6. \A x \in Writers : run'[x] = IF x = w THEN new ELSE run[x]
  BY Zenon DEF Inv, TypeOK
<1>7. RunsFit'
  <2>1. ~cfg.overlap => w # 2
    BY OneWriter
  <2>2. \A v \in Units : ckpt'[v] > 0 => v <= arrived'
    BY <1>0, <1>3 DEF Inv, RunsFit
  <2>3. ASSUME NEW x \in Writers, run'[x].pc \in {"post", "ack"} PROVE run'[x].cur \in Units
    <3>1. CASE x = w
      BY Zenon, <1>0, <1>6, <3>1 DEF u
    <3>2. CASE x # w
      BY Zenon, <1>6, <2>3, <3>2 DEF Inv, RunsFit
    <3> QED
      BY Zenon, <3>1, <3>2
  <2> QED
    BY <1>6, <2>1, <2>2, <2>3 DEF Inv, RunsFit, Writers
<1>8. StrictFits'
  <2>1. \A v \in Units : ckpt[v] > 0 => ckpt'[v] > 0
    BY <1>0, <1>1, <1>3
  <2>2. acked \subseteq Units /\ \A x \in Writers : run[x].pc = "ack" => run[x].cur \in Units
    BY Zenon, AckedUnits DEF Inv, RunsFit
  <2>3. ckpt'[u] > 0
    BY <1>0, <1>3
  <2>4. ASSUME cfg.strict, NEW x \in acked \ bare PROVE ckpt'[x] > 0
    BY Zenon, <2>1, <2>2, <2>4 DEF Inv, StrictFits
  <2>5. ASSUME cfg.strict, NEW x \in Writers, run'[x].pc = "ack" PROVE ckpt'[run'[x].cur] > 0
    <3>1. CASE x = w
      BY Zenon, <1>6, <2>3, <3>1 DEF u
    <3>2. CASE x # w
      <4>1. run'[x] = run[x]
        BY Zenon, <1>6, <3>2
      <4> QED
        BY Zenon, <2>1, <2>2, <2>5, <4>1 DEF Inv, StrictFits
    <3> QED
      BY Zenon, <3>1, <3>2
  <2> QED
    BY Zenon, <2>4, <2>5 DEF StrictFits
<1>9. ASSUME Watched' PROVE Watched /\ w = 1 /\ run'[1] = new /\ r = run[1] /\ gen = 1
  <2>1. Watched /\ ~cfg.overlap /\ gen = 1
    BY Zenon, <1>9 DEF Watched, Alone
  <2>2. w = 1
    BY Zenon, <2>1, OneWriter
  <2> QED
    BY Zenon, <1>6, <2>1, <2>2
<1>10. ASSUME (Watched /\ OnlyHurt({"crash", "lost", "ack", "put", "open"}))' PROVE Covered'
  <2>1. Covered /\ run'[1] = new /\ r = run[1]
    BY Zenon, <1>9, <1>10 DEF Inv, OnlyHurt
  <2>2. ASSUME NEW v \in Units, ckpt'[v] > 0 PROVE r.mem[v] >= 1
    BY Zenon, <1>3, <2>1, <2>2 DEF Covered, u
  <2>3. ~(Absent')
    BY <1>0, <1>4 DEF Absent
  <2> QED
    BY Zenon, <1>4, <2>1, <2>2, <2>3 DEF Covered
<1>11. ASSUME (Watched /\ OnlyHurt({"crash"}))' PROVE Exact'
  <2>1. /\ Exact /\ run'[1] = new /\ r = run[1] /\ gen = 1
        /\ new.pc = "ack" /\ new.base = r.base + 1
    BY Zenon, <1>9, <1>11 DEF Inv, OnlyHurt
  <2>2. /\ r.base = row.rev /\ u \notin acked /\ u \notin r.todo
        /\ \A v \in Units : v < u => v \in acked
        /\ Absent => row.rev = 0
    BY <2>1 DEF Exact, NoRow, u
  <2>3. row'.rev = r.base + 1
    BY <1>0, <1>4, <2>2
  <2>4. \A v \in Units \ bare : row'.state[v] = IF ckpt'[v] > 0 THEN 1 ELSE 0
    BY <1>0, <1>1, <1>3, <1>4, <2>1 DEF Exact, u
  <2>m. \A v \in Units \ bare : new.mem[v] = row'.state[v]
    BY Zenon, <1>4
  <2>5. ~(Absent') /\ row'.gen \in {0, 1}
    BY <1>0, <1>4, <2>1 DEF Absent
  <2>6. \A v \in Units, x \in Units : ckpt'[v] > 0 /\ x < v => x \in acked
    BY Zenon, <1>3, <2>1, <2>2 DEF Exact
  <2>7. \A v \in Units : ckpt'[v] > 0 => v \in acked \/ ckpt'[v] = row'.rev
    <3> SUFFICES ASSUME NEW v \in Units, v # u, ckpt'[v] > 0 PROVE v \in acked
      BY Zenon, <1>3, <2>3
    <3>1. ~(u < v)
      BY Zenon, <1>0, <1>3, <2>1, <2>2 DEF Exact
    <3>2. v < u
      BY <1>0, <3>1 DEF Units
    <3> QED
      BY Zenon, <2>2, <3>2
  <2>8. /\ new.todo \cap acked = {} /\ new.cur \notin new.todo
        /\ \A t \in new.todo, v \in 1..arrived :
              v < t => v \in acked \cup new.todo \/ v = new.cur
        /\ \A v \in Units : ckpt'[v] > 0 => v \in acked \cup new.todo \cup {new.cur}
    BY <1>3, <2>1, <2>2 DEF Exact, u
  <2> QED
    BY ZenonT(60), <1>4, <2>1, <2>2, <2>3, <2>4, <2>5, <2>6, <2>7, <2>8, <2>m DEF Exact, u
<1> QED
  BY Zenon, <1>5, <1>7, <1>8, <1>10, <1>11 DEF Inv

\* The manager has the unit already: the run restores the committed state.
LEMMA AlreadyInv ==
    ASSUME Inv, NEW w \in Writers, run[w].pc = "post", Outcome(run[w]) = "already",
           NEW new, new = [run[w] EXCEPT !.pc = "ack", !.base = ckpt[run[w].cur],
                                         !.mem = Restored(run[w])],
           run' = [run EXCEPT ![w] = new],
           UNCHANGED <<cfg, gen, arrived, acked, bare, open, ckpt, row, hurt>>
    PROVE  Inv'
<1> DEFINE r == run[w]
           u == r.cur
<1>0. /\ r \in RunType /\ u \in Units /\ u \in 1..arrived /\ r.base \in Nat /\ r.gen \in 1..gen
      /\ r.mem \in [Units -> 0..2] /\ ckpt \in [Units -> Nat]
      /\ gen \in Nat \ {0} /\ arrived \in Nat
      /\ row \in [gen : 0..gen, rev : Nat, sha : 0..gen, state : [Units -> 0..2]]
  BY Zenon, PostFacts
<1>1. ckpt[u] > 0
  BY Zenon DEF Outcome, Duplicate
<1>2. /\ new.pc = "ack" /\ new.cur = u /\ new.todo = r.todo
      /\ new.base = ckpt[u] /\ new.mem = Restored(r) /\ new \in RunType
  <2>1. Restored(r) \in [Units -> 0..2] /\ ckpt[u] \in Nat
    BY Zenon, <1>0 DEF Restored
  <2> HIDE DEF r
  <2>2. [r EXCEPT !.pc = "ack", !.base = ckpt[u], !.mem = Restored(r)] \in RunType
    BY Zenon, <1>0, <2>1 DEF RunType
  <2>3. new = [r EXCEPT !.pc = "ack", !.base = ckpt[u], !.mem = Restored(r)]
    BY Zenon DEF r
  <2> QED
    BY Zenon, <1>0, <2>2, <2>3 DEF RunType
<1> HIDE DEF u
<1>3. TypeOK'
  BY Zenon, <1>0, <1>2, StepTypes DEF Inv, TypeOK
<1>4. \A x \in Writers : run'[x] = IF x = w THEN new ELSE run[x]
  BY Zenon DEF Inv, TypeOK
<1>5. RunsFit' /\ StrictFits'
  <2>1. ~cfg.overlap => w # 2
    BY OneWriter
  <2> QED
    BY <1>0, <1>1, <1>2, <1>4, <2>1 DEF Inv, RunsFit, StrictFits
<1>6. ASSUME Watched' PROVE Watched /\ w = 1 /\ run'[1] = new /\ r = run[1] /\ gen = 1
  <2>1. Watched /\ ~cfg.overlap /\ gen = 1
    BY Zenon, <1>6 DEF Watched, Alone
  <2>2. w = 1
    BY Zenon, <2>1, OneWriter
  <2> QED
    BY Zenon, <1>4, <2>1, <2>2
<1>7. ASSUME (Watched /\ OnlyHurt({"crash", "lost", "ack", "put", "open"}))'
      PROVE  Covered /\ Covered' /\ new.mem = row.state
  <2>1. Covered /\ run'[1] = new /\ r = run[1] /\ Watched
    BY Zenon, <1>6, <1>7 DEF Inv, OnlyHurt
  <2>2. new.mem = row.state
    BY <1>0, <1>1, <1>2, <1>6, <1>7, <2>1 DEF Covered, Restored, Watched, Alone, Absent
  <2> QED
    BY Zenon, <1>2, <2>1, <2>2 DEF Covered, Absent
<1>8. ASSUME (Watched /\ OnlyHurt({"crash"}))' PROVE Exact'
  <2>1. Exact /\ run'[1] = new /\ r = run[1] /\ new.mem = row.state
    BY Zenon, <1>6, <1>7, <1>8 DEF Inv, OnlyHurt
  <2>2. /\ u \notin acked /\ u \notin r.todo /\ ckpt[u] = row.rev
        /\ \A v \in Units : v < u => v \in acked
    BY Zenon, <1>0, <1>1, <2>1 DEF Exact, u
  <2>3. /\ new.todo \cap acked = {} /\ new.cur \notin new.todo
        /\ \A t \in new.todo, v \in 1..arrived :
              v < t => v \in acked \cup new.todo \/ v = new.cur
        /\ \A v \in Units : ckpt[v] > 0 => v \in acked \cup new.todo \cup {new.cur}
    BY <1>2, <2>1 DEF Exact, u
  <2> QED
    BY ZenonT(60), <1>2, <2>1, <2>2, <2>3 DEF Exact, Absent
<1> QED
  BY Zenon, <1>3, <1>5, <1>7, <1>8 DEF Inv

\* The answer is lost, or the fence refuses the unit.
LEMMA PendingInv ==
    ASSUME Inv, NEW w \in Writers, run[w].pc = "post",
           run' = [run EXCEPT ![w] = Pending(run[w])],
           UNCHANGED <<cfg, gen, arrived, acked, bare, open, ckpt, row>>,
           hurt' \in [left : Nat, kinds : SUBSET Kinds], hurt.kinds \subseteq hurt'.kinds,
           "lost" \in hurt'.kinds \/ Outcome(run[w]) = "stale"
    PROVE  Inv'
<1> DEFINE r == run[w]
           new == Pending(r)
<1>0. /\ r \in RunType /\ r.gen \in 1..gen /\ ckpt \in [Units -> Nat] /\ gen \in Nat
      /\ row \in [gen : 0..gen, rev : Nat, sha : 0..gen, state : [Units -> 0..2]]
      /\ r.cur \in Units
  BY Zenon, PostFacts
<1>1. /\ new \in RunType /\ new.pc = IF cfg.strict THEN "work" ELSE "ack"
      /\ new.mem = r.mem /\ new.cur = r.cur
  BY Zenon, <1>0 DEF Pending, RunType
<1> HIDE DEF new
<1>2. TypeOK'
  BY Zenon, <1>0, <1>1, StepTypes DEF Inv, TypeOK, new
<1>3. \A x \in Writers : run'[x] = IF x = w THEN new ELSE run[x]
  BY Zenon DEF Inv, TypeOK, new
<1>4. RunsFit' /\ StrictFits'
  <2>1. ~cfg.overlap => w # 2
    BY OneWriter
  <2> QED
    BY <1>0, <1>1, <1>3, <2>1 DEF Inv, RunsFit, StrictFits
<1>5. ASSUME Watched' PROVE Watched /\ w = 1 /\ run'[1] = new /\ r = run[1] /\ gen = 1
  <2>1. Watched /\ ~cfg.overlap /\ gen = 1
    BY Zenon, <1>5 DEF Watched, Alone
  <2>2. w = 1
    BY Zenon, <2>1, OneWriter
  <2> QED
    BY Zenon, <1>3, <2>1, <2>2
<1>6. ASSUME (Watched /\ OnlyHurt({"crash", "lost", "ack", "put", "open"}))' PROVE Covered'
  <2>1. Covered /\ run'[1] = new /\ r = run[1]
    BY Zenon, <1>5, <1>6 DEF Inv, OnlyHurt
  <2> QED
    BY Zenon, <1>1, <2>1 DEF Covered, Absent
<1>7. ASSUME (Watched /\ OnlyHurt({"crash"}))' PROVE FALSE
  <2>1. Exact /\ r = run[1] /\ gen = 1 /\ Outcome(r) = "stale"
    BY Zenon, <1>5, <1>7 DEF Inv, OnlyHurt
  <2>2. r.base = row.rev /\ r.gen = 1 /\ ~Absent /\ row.gen \in {0, 1}
    BY <1>0, <2>1 DEF Exact, Outcome, Fenced
  <2> QED
    BY Zenon, <2>1, <2>2 DEF Outcome, Fenced
<1> QED
  BY Zenon, <1>2, <1>4, <1>6, <1>7 DEF Inv

\* The answer of the manager arrives.
LEMMA CheckpointInv == ASSUME Inv, NEW w \in Writers, Checkpoint(w) PROVE Inv'
<1> DEFINE r == run[w]
<1>0. /\ run[w].pc = "post" /\ CommitAtomic(run[w])
      /\ UNCHANGED <<cfg, gen, arrived, acked, bare, open, hurt>>
      /\ hurt' \in [left : Nat, kinds : SUBSET Kinds] /\ hurt.kinds \subseteq hurt'.kinds
  BY Zenon DEF Checkpoint, Inv, TypeOK
<1>1. r \in RunType
  BY Zenon, <1>0, PostFacts
<1>2. CASE Outcome(run[w]) = "committed"
  <2> DEFINE new == [r EXCEPT !.pc = "ack", !.base = r.base + 1]
  <2>1. run' = [run EXCEPT ![w] = new]
    BY Zenon, <1>2 DEF Checkpoint
  <2>2. /\ new \in RunType /\ new.pc = "ack" /\ new.mem = run[w].mem
        /\ new.todo = run[w].todo /\ new.cur = run[w].cur /\ new.base = run[w].base + 1
    <3>1. r.base + 1 \in Nat
      BY <1>1 DEF RunType
    <3>2. new \in RunType
      BY Zenon, <1>1, <3>1 DEF RunType
    <3> QED
      BY Zenon, <1>1, <3>2 DEF RunType
  <2> HIDE DEF new
  <2> QED
    BY Zenon, <1>0, <1>2, <2>1, <2>2, CommittedInv
<1>3. CASE Outcome(run[w]) = "already"
  <2> DEFINE new == [run[w] EXCEPT !.pc = "ack", !.base = ckpt[run[w].cur],
                                   !.mem = Restored(run[w])]
  <2>1. run' = [run EXCEPT ![w] = new] /\ UNCHANGED <<ckpt, row>>
    BY Zenon, <1>0, <1>3 DEF Checkpoint, CommitAtomic
  <2> QED
    BY Zenon, <1>0, <1>3, <2>1, AlreadyInv
<1>4. CASE Outcome(run[w]) = "stale"
  <2>1. run' = [run EXCEPT ![w] = Pending(run[w])] /\ UNCHANGED <<ckpt, row>>
    BY Zenon, <1>0, <1>4 DEF Checkpoint, CommitAtomic
  <2> QED
    BY Zenon, <1>0, <1>4, <2>1, PendingInv
<1> QED
  BY Zenon, <1>2, <1>3, <1>4 DEF Outcome

\* The answer is lost, whether or not the manager has committed.
LEMMA LostInv == ASSUME Inv, NEW w \in Writers, CheckpointLost(w) PROVE Inv'
<1>0. /\ run[w].pc = "post" /\ run' = [run EXCEPT ![w] = Pending(run[w])]
      /\ UNCHANGED <<cfg, gen, arrived, acked, bare, open>>
      /\ CommitAtomic(run[w]) \/ UNCHANGED <<ckpt, row>>
  BY Zenon DEF CheckpointLost
<1>1. /\ hurt' \in [left : Nat, kinds : SUBSET Kinds] /\ hurt.kinds \subseteq hurt'.kinds
      /\ "lost" \in hurt'.kinds
  BY Zenon, HurtFacts DEF CheckpointLost, Inv, Kinds
<1>2. CASE UNCHANGED <<ckpt, row>>
  BY Zenon, <1>0, <1>1, <1>2, PendingInv
<1>3. CASE CommitAtomic(run[w]) /\ Outcome(run[w]) = "committed"
  <2>1. /\ Pending(run[w]) \in RunType /\ Pending(run[w]).pc \in {"work", "ack"}
        /\ Pending(run[w]).mem = run[w].mem
        /\ Pending(run[w]).todo = run[w].todo /\ Pending(run[w]).cur = run[w].cur
    <3>1. run[w] \in RunType
      BY Zenon, <1>0, PostFacts
    <3> QED
      BY Zenon, <3>1 DEF Pending, RunType
  <2> QED
    BY Zenon, <1>0, <1>1, <1>3, <2>1, CommittedInv
<1>4. CASE CommitAtomic(run[w]) /\ Outcome(run[w]) # "committed"
  BY Zenon, <1>2, <1>4 DEF CommitAtomic
<1> QED
  BY Zenon, <1>0, <1>2, <1>3, <1>4

\* The source is told of the unit, or the call fails.
LEMMA AckInv == ASSUME Inv, NEW w \in Writers, Ack(w) PROVE Inv'
<1> DEFINE r == run[w]
           new == [r EXCEPT !.pc = "work"]
<1>0. /\ TypeOK /\ r.pc \in {"ack", "bare"} /\ run' = [run EXCEPT ![w] = new]
      /\ UNCHANGED <<cfg, gen, row, ckpt, arrived, open>> /\ r.pc # "idle"
  BY Zenon DEF Inv, Ack
<1>1. r \in RunType /\ r.cur \in Units /\ r.cur \in 1..arrived
  <2>1. r \in RunType /\ r.cur \in Units
    BY Zenon, <1>0, RunFacts DEF Inv, RunsFit
  <2>2. r.cur \in 0..arrived
    BY Zenon, <2>1 DEF RunType
  <2>3. arrived \in Nat
    BY <1>0 DEF TypeOK, Units
  <2> QED
    BY <2>1, <2>2, <2>3 DEF Units
<1>2. /\ new \in RunType /\ new.pc = "work" /\ new.todo = r.todo
      /\ new.base = r.base /\ new.mem = r.mem
  BY Zenon, <1>1 DEF RunType
<1>3. /\ hurt' \in [left : Nat, kinds : SUBSET Kinds] /\ hurt.kinds \subseteq hurt'.kinds
      /\ \/ /\ acked' = acked \cup {r.cur}
            /\ bare' = IF r.pc = "bare" THEN bare \cup {r.cur} ELSE bare
         \/ acked' = acked /\ bare' = bare /\ "ack" \in hurt'.kinds
  <2>1. CASE /\ acked' = acked \cup {r.cur} /\ UNCHANGED hurt
             /\ bare' = IF r.pc = "bare" THEN bare \cup {r.cur} ELSE bare
    BY Zenon, <1>0, <2>1 DEF TypeOK
  <2>2. CASE Hurts("ack") /\ UNCHANGED <<acked, bare>>
    <3>1. "ack" \in Kinds
      BY Zenon DEF Kinds
    <3>2. hurt' \in [left : Nat, kinds : SUBSET Kinds] /\ hurt'.kinds = hurt.kinds \cup {"ack"}
      BY Zenon, <1>0, <2>2, <3>1, HurtFacts
    <3> QED
      BY Zenon, <2>2, <3>2
  <2> QED
    BY Zenon, <2>1, <2>2 DEF Ack
<1> HIDE DEF new
<1>4. TypeOK'
  <2>1. acked' \subseteq 1..arrived /\ bare' \subseteq acked' /\ open' \subseteq Units
    BY Zenon, <1>0, <1>1, <1>3 DEF TypeOK
  <2> QED
    BY Zenon, <1>0, <1>2, <1>3, <2>1, StepTypes DEF TypeOK
<1>5. \A x \in Writers : run'[x] = IF x = w THEN new ELSE run[x]
  BY Zenon, <1>0 DEF TypeOK
<1>6. RunsFit' /\ StrictFits'
  <2>1. ~cfg.overlap => w # 2
    BY <1>0, OneWriter
  <2>2. RunsFit'
    BY <1>0, <1>2, <1>5, <2>1 DEF Inv, RunsFit
  <2>3. acked' \ bare' \subseteq (acked \ bare) \cup (IF r.pc = "ack" THEN {r.cur} ELSE {})
    BY <1>0, <1>3
  <2>4. cfg.strict => \A x \in acked' \ bare' : ckpt[x] > 0
    BY Zenon, <2>3 DEF Inv, StrictFits
  <2>5. cfg.strict => \A x \in Writers : run'[x].pc = "ack" => ckpt[run'[x].cur] > 0
    BY <1>2, <1>5 DEF Inv, StrictFits
  <2> QED
    BY Zenon, <1>0, <2>2, <2>4, <2>5 DEF StrictFits
<1>7. ASSUME Watched' PROVE Watched /\ w = 1 /\ run'[1] = new /\ r = run[1]
  <2>1. Watched /\ ~cfg.overlap
    BY Zenon, <1>0, <1>7 DEF Watched, Alone
  <2>2. w = 1
    BY Zenon, <1>0, <2>1, OneWriter
  <2> QED
    BY Zenon, <1>5, <2>1, <2>2
<1>8. ASSUME (Watched /\ OnlyHurt({"crash", "lost", "ack", "put", "open"}))' PROVE Covered'
  <2>1. Covered /\ run'[1] = new /\ r = run[1]
    BY Zenon, <1>3, <1>7, <1>8 DEF Inv, OnlyHurt
  <2> QED
    BY Zenon, <1>0, <1>2, <2>1 DEF Covered, Absent
<1>9. ASSUME (Watched /\ OnlyHurt({"crash"}))' PROVE Exact'
  <2>1. /\ Exact /\ run'[1] = new /\ r = run[1] /\ acked' = acked \cup {r.cur}
        /\ bare' = IF r.pc = "bare" THEN bare \cup {r.cur} ELSE bare
    BY Zenon, <1>3, <1>7, <1>9 DEF Inv, OnlyHurt
  <2>2. /\ new.todo \cap acked' = {} /\ new.base = row.rev
        /\ \A t \in new.todo, v \in 1..arrived : v < t => v \in acked' \cup new.todo
        /\ \A v \in Units : ckpt[v] > 0 => v \in acked' \cup new.todo
    BY <1>0, <1>2, <2>1 DEF Exact
  <2>3. bare \subseteq bare' /\ (r.pc # "ack" => r.cur \in bare')
    BY Zenon, <1>0, <2>1
  <2>4. \A v \in Units \ bare' : new.mem[v] = row.state[v]
    <3>1. CASE r.pc = "ack"
      BY <1>2, <2>1, <2>3, <3>1 DEF Exact
    <3>2. CASE r.pc = "bare"
      BY <1>2, <2>1, <2>3, <3>2 DEF Exact
    <3> QED
      BY Zenon, <1>0, <3>1, <3>2
  <2>5. /\ \A v \in Units \ bare' : row.state[v] = IF ckpt[v] > 0 THEN 1 ELSE 0
        /\ Absent => row = NoRow
        /\ ~Absent => row.gen \in {0, 1}
        /\ \A v \in Units : ckpt[v] > 0 => v \in acked' \/ ckpt[v] = row.rev
        /\ \A v, x \in Units : ckpt[v] > 0 /\ x < v => x \in acked'
    BY Zenon, <2>1, <2>3 DEF Exact
  <2> QED
    BY ZenonT(60), <1>0, <1>2, <2>1, <2>2, <2>4, <2>5 DEF Exact, Absent
<1> QED
  BY Zenon, <1>4, <1>6, <1>8, <1>9 DEF Inv

\* An attempt fails: the next one starts from the snapshot, or the run ends.
LEMMA AttemptFailsInv == ASSUME Inv, NEW w \in Writers, AttemptFails(w) PROVE Inv'
<1> DEFINE r == run[w]
           new == [r EXCEPT !.attempt = @ + 1, !.todo = Waiting,
                            !.mem = r.snap.state, !.base = r.snap.rev]
<1>0. /\ TypeOK /\ r.pc = "work" /\ UNCHANGED <<cfg, gen, row, ckpt, arrived, acked, bare, open>>
      /\ run' = [run EXCEPT ![w] = IF r.attempt < MaxAttempts THEN new ELSE NoRun]
  <2>1. TypeOK /\ r.pc = "work" /\ UNCHANGED <<cfg, gen, row, ckpt, arrived, acked, bare, open>>
    BY Zenon DEF Inv, AttemptFails
  <2>2. run' = [run EXCEPT ![w] = IF r.attempt < MaxAttempts THEN new ELSE NoRun]
    BY Zenon DEF AttemptFails
  <2> QED
    BY Zenon, <2>1, <2>2
<1>1. /\ hurt' \in [left : Nat, kinds : SUBSET Kinds] /\ hurt.kinds \subseteq hurt'.kinds
      /\ "error" \in hurt'.kinds
  BY Zenon, <1>0, HurtFacts DEF AttemptFails, Kinds
<1>2. CASE r.attempt < MaxAttempts
  <2>0. r \in RunType
    BY Zenon, <1>0, RunFacts
  <2>1. new \in RunType /\ new.pc = "work"
    <3>1. /\ r.attempt + 1 \in 1..MaxAttempts /\ Waiting \in SUBSET (1..arrived)
          /\ r.snap.state \in [Units -> 0..2] /\ r.snap.rev \in Nat
      BY <1>2, <2>0, CheckpointConstants DEF RunType, Waiting
    <3> QED
      BY Zenon, <1>0, <2>0, <3>1 DEF RunType
  <2> HIDE DEF new
  <2>2. TypeOK'
    BY Zenon, <1>0, <1>1, <1>2, <2>1, StepTypes DEF TypeOK
  <2>3. \A x \in Writers : run'[x] = IF x = w THEN new ELSE run[x]
    BY Zenon, <1>0, <1>2 DEF TypeOK
  <2>4. RunsFit' /\ StrictFits'
    <3>1. ~cfg.overlap => w # 2
      BY <1>0, OneWriter
    <3> QED
      BY <1>0, <2>1, <2>3, <3>1 DEF Inv, RunsFit, StrictFits
  <2> QED
    BY Zenon, <1>1, <2>2, <2>4 DEF Inv, OnlyHurt
<1>3. CASE ~(r.attempt < MaxAttempts)
  BY Zenon, <1>0, <1>1, <1>3, RunGone
<1> QED
  BY Zenon, <1>2, <1>3

\* The end of a run saves its state.
LEMMA EndInv == ASSUME Inv, NEW w \in Writers, EndRun(w) PROVE Inv'
<1> DEFINE r == run[w]
<1>0. /\ TypeOK /\ r.pc = "work" /\ UNCHANGED <<cfg, gen, ckpt, arrived, acked, bare, open>>
      /\ run' = [run EXCEPT ![w] = NoRun]
  BY Zenon DEF Inv, EndRun
<1>1. /\ hurt' \in [left : Nat, kinds : SUBSET Kinds] /\ hurt.kinds \subseteq hurt'.kinds
  BY Zenon, <1>0, HurtFacts DEF EndRun, TypeOK, Kinds
<1>2. CASE UNCHANGED row
  BY Zenon, <1>0, <1>1, <1>2, RunGone
<1>3. CASE SaveState(r)
  <2>1. r.mem \in [Units -> 0..2] /\ r.gen \in 1..gen /\ gen \in Nat
    BY Zenon, <1>0, RunFacts DEF RunType, TypeOK
  <2>2. row \in [gen : 0..gen, rev : Nat, sha : 0..gen, state : [Units -> 0..2]]
    BY Zenon, <1>0 DEF TypeOK
  <2>3. row' = [row EXCEPT !.state = r.mem, !.sha = r.gen]
    BY Zenon, <1>3 DEF SaveState
  <2>4. /\ row' \in [gen : 0..gen, rev : Nat, sha : 0..gen, state : [Units -> 0..2]]
        /\ row'.state = r.mem /\ row'.sha = r.gen /\ row'.rev = row.rev /\ row'.gen = row.gen
    <3>1. r.gen \in 0..gen
      BY <2>1
    <3> QED
      BY Zenon, <2>1, <2>2, <2>3, <3>1
  <2>5. TypeOK'
    BY Zenon, <1>0, <1>1, <2>4, StepTypes DEF TypeOK
  <2>6. \A x \in Writers : run'[x] = IF x = w THEN NoRun ELSE run[x]
    BY Zenon, <1>0 DEF TypeOK
  <2>7. NoRun.pc = "idle"
    BY Zenon DEF NoRun
  <2>8. RunsFit' /\ StrictFits'
    BY <1>0, <2>6, <2>7 DEF Inv, RunsFit, StrictFits, Writers
  <2>9. ASSUME Watched' PROVE Watched /\ run'[1].pc = "idle" /\ r = run[1] /\ gen = 1
    <3>1. Watched /\ ~cfg.overlap /\ gen = 1
      BY Zenon, <1>0, <2>9 DEF Watched, Alone
    <3>2. w = 1
      BY Zenon, <1>0, <3>1, OneWriter
    <3> QED
      BY Zenon, <2>6, <2>7, <3>1, <3>2
  <2>10. ~(Absent')
    BY <2>1, <2>4 DEF Absent
  <2>11. ASSUME (Watched /\ OnlyHurt({"crash", "lost", "ack", "put", "open"}))' PROVE Covered'
    <3>1. Covered /\ run'[1].pc = "idle" /\ r = run[1]
      BY Zenon, <1>1, <2>9, <2>11 DEF Inv, OnlyHurt
    <3> QED
      BY Zenon, <1>0, <2>4, <2>10, <3>1 DEF Covered
  <2>12. ASSUME (Watched /\ OnlyHurt({"crash"}))' PROVE Exact'
    <3>1. Exact /\ run'[1].pc = "idle" /\ r = run[1] /\ gen = 1
      BY Zenon, <1>1, <2>9, <2>12 DEF Inv, OnlyHurt
    <3>2. (\A v \in Units \ bare : row'.state[v] = row.state[v]) /\ row'.gen \in {0, 1}
      BY <1>0, <2>2, <2>4, <3>1 DEF Exact, NoRow
    <3> QED
      BY Zenon, <1>0, <2>4, <2>10, <3>1, <3>2 DEF Exact
  <2> QED
    BY Zenon, <2>5, <2>8, <2>11, <2>12 DEF Inv
<1> QED
  BY Zenon, <1>2, <1>3 DEF EndRun

\* An update starts a generation whose runs are not watched any more.
LEMMA UpdateInv == ASSUME Inv, Update PROVE Inv'
<1>0. /\ TypeOK /\ cfg.updates > 0 /\ cfg' = [cfg EXCEPT !.updates = cfg.updates - 1]
      /\ gen' = gen + 1 /\ row' = NoRow /\ UNCHANGED <<ckpt, arrived, acked, bare, open, run, hurt>>
      /\ gen \in Nat \ {0}
  BY Zenon DEF Inv, Update, TypeOK
<1>1. /\ cfg' \in [strict : BOOLEAN, stateful : BOOLEAN, overlap : BOOLEAN,
                   ends : SUBSET Ends, units : Units, updates : Nat, faults : Nat]
      /\ cfg'.strict = cfg.strict /\ cfg'.overlap = cfg.overlap
  BY <1>0 DEF TypeOK
<1>2. RunType \subseteq RunType'
  <2>1. 1..gen \subseteq 1..gen'
    BY <1>0
  <2> QED
    BY Zenon, <1>0, <2>1 DEF RunType
<1>3. row' \in [gen : 0..gen', rev : Nat, sha : 0..gen', state : [Units -> 0..2]]
  BY <1>0 DEF NoRow, Zero
<1>4. TypeOK'
  BY <1>0, <1>1, <1>2, <1>3 DEF TypeOK
<1>5. RunsFit' /\ StrictFits'
  BY Zenon, <1>0, <1>1 DEF Inv, RunsFit, StrictFits
<1>6. ~(Watched')
  BY <1>0 DEF Watched, Alone
<1> QED
  BY Zenon, <1>4, <1>5, <1>6 DEF Inv

\* A unit arrives behind the others.
LEMMA ArriveInv == ASSUME Inv, Arrive PROVE Inv'
<1>0. /\ TypeOK /\ arrived < cfg.units /\ arrived' = arrived + 1
      /\ UNCHANGED <<cfg, gen, row, ckpt, acked, bare, open, run, hurt>>
  BY Zenon DEF Inv, Arrive
<1>1. arrived \in 1..NUnits /\ arrived' \in 1..NUnits
  <2>1. arrived \in 1..NUnits /\ cfg.units \in 1..NUnits
    BY Zenon, <1>0 DEF TypeOK, Units
  <2> QED
    BY <1>0, <2>1, CheckpointConstants
<1>2. RunType \subseteq RunType'
  <2>1. 1..arrived \subseteq 1..arrived' /\ 0..arrived \subseteq 0..arrived'
    BY <1>0, <1>1
  <2> QED
    BY Zenon, <1>0, <2>1 DEF RunType
<1>3. acked \subseteq 1..arrived'
  BY <1>0, <1>1 DEF TypeOK
<1>4. TypeOK'
  BY Zenon, <1>0, <1>1, <1>2, <1>3 DEF TypeOK, Units
<1>5. RunsFit' /\ StrictFits'
  BY <1>0, <1>1 DEF Inv, RunsFit, StrictFits, Units
<1>6. ASSUME Covered PROVE Covered'
  BY Zenon, <1>0, <1>6 DEF Covered, Absent
<1>7. ASSUME Exact PROVE Exact'
  <2>1. ASSUME run[1].pc # "idle", NEW t \in run[1].todo, NEW v \in 1..arrived', v < t
        PROVE  v \in 1..arrived
    <3>1. t \in 1..arrived
      BY <1>0, <2>1, RunFacts DEF RunType, Writers
    <3> QED
      BY <1>1, <2>1, <3>1
  <2> QED
    BY Zenon, <1>0, <1>7, <2>1 DEF Exact, Absent
<1> QED
  BY Zenon, <1>0, <1>4, <1>5, <1>6, <1>7 DEF Inv, Watched, Alone, OnlyHurt

\* Every step keeps the invariant.
LEMMA NextInv == Inv /\ [Next]_vars => Inv'
<1> SUFFICES ASSUME Inv, [Next]_vars PROVE Inv'
  BY Zenon
<1>1. CASE UNCHANGED vars
  <2>1. UNCHANGED <<cfg, gen, row, ckpt, arrived, acked, bare, open, run, hurt>>
    BY Zenon, <1>1 DEF vars
  <2>2. RunType' = RunType
    BY Zenon, <2>1 DEF RunType
  <2>3. TypeOK' /\ RunsFit' /\ StrictFits'
    BY Zenon, <2>1, <2>2 DEF Inv, TypeOK, RunsFit, StrictFits
  <2>4. (Covered => Covered') /\ (Exact => Exact')
    BY Zenon, <2>1 DEF Covered, Exact, Absent
  <2> QED
    BY Zenon, <2>1, <2>3, <2>4 DEF Inv, Watched, Alone, OnlyHurt
<1>2. ASSUME NEW w \in Writers, Step(w) PROVE Inv'
  <2>1. ASSUME NEW end \in Ends, Deliver(w, end) PROVE Inv'
    BY Zenon, <2>1, DeliverInv
  <2> QED
    BY Zenon, <1>2, <2>1, StartInv, CheckpointInv, AckInv, EndInv DEF Step
<1>3. ASSUME NEW w \in Writers, Harm(w) PROVE Inv'
  BY Zenon, <1>3, LostInv, AttemptFailsInv, CrashInv DEF Harm
<1> QED
  BY Zenon, <1>1, <1>2, <1>3, UpdateInv, ArriveInv DEF Next, Settled

\* The invariant holds in every state.
LEMMA Invariant == Spec => []Inv
BY InitInv, NextInv, PTL DEF Spec

-----------------------------------------------------------------------------
(* A strict pipeline acknowledges a unit as DELIVERED only once the manager *)
(* has its checkpoint row, whatever answers, runs or updates came between  *)
(* and however the other units' passes end.                                *)
THEOREM StrictAcksAreCommitted == Spec => []StrictAckIsCommitted
<1>1. Inv => StrictAckIsCommitted
  BY Zenon DEF Inv, StrictFits, StrictAckIsCommitted, Duplicate
<1> QED
  BY <1>1, Invariant, PTL

(* A unit a strict pipeline has acknowledged as DELIVERED is in the saved  *)
(* state: exactly once if runs only crash, at least once if answers,       *)
(* acknowledgements and PUTs fail and passes decide nothing as well.       *)
THEOREM AckedUnitsAreAbsorbed == Spec => []AckedIsAbsorbed
<1>1. Inv => AckedIsAbsorbed
  <2> SUFFICES ASSUME Inv, Watched PROVE AckedIsAbsorbed
    BY Zenon DEF AckedIsAbsorbed, Watched
  <2>1. acked \subseteq Units /\ \A u \in acked \ bare : ckpt[u] > 0
    BY Zenon, AckedUnits DEF Inv, StrictFits, Watched
  <2>2. OnlyHurt({"crash"}) => \A u \in acked \ bare : row.state[u] = 1
    BY Zenon, <2>1 DEF Inv, Exact
  <2>3. OnlyHurt({"crash", "lost", "ack", "put", "open"}) =>
            \A u \in acked \ bare : row.state[u] >= 1
    BY Zenon, <2>1 DEF Inv, Covered
  <2> QED
    BY Zenon, <2>2, <2>3 DEF AckedIsAbsorbed
<1> QED
  BY <1>1, Invariant, PTL
=============================================================================
