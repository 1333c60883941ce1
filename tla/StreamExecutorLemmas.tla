----------------------- MODULE StreamExecutorLemmas -----------------------
(***************************************************************************)
(* The inductive invariant of StreamExecutor, lemmas about the operators   *)
(* of the model, what each step changes, whichever thread takes it, and    *)
(* that a poll and the steps which move control only keep the invariant.   *)
(* StreamExecutorProofs has the other steps and the theorems.              *)
(***************************************************************************)
EXTENDS StreamExecutor, FiniteSetTheorems, WellFoundedInduction, TLAPS

-----------------------------------------------------------------------------
(* The inductive invariant.                                                *)

Items == Keys \X (1..Length) \X Nat
UnitKeys == Keys \X Nat \X Nat
FileUnits == Keys \X {0} \X {0}
Counts == [in : Nat, delivered : Nat, failed : Nat, dlqOk : Nat, dlqFail : Nat]
Accounts == [loss : BOOLEAN, pending : BOOLEAN, gaps : [Keys -> Nat]]
Buffers == [records : SUBSET Items, contributors : SUBSET (Items \X BOOLEAN), completed : SUBSET Items]
Locks == [by : Workers \union {"none", "reader", "flusher"}, records : SUBSET Items,
          contributors : SUBSET (Items \X BOOLEAN)]
Sinks == [written : SUBSET Data, durable : SUBSET Data, filtered : SUBSET Data,
          swallowed : SUBSET Data, dlq : SUBSET Data, dropped : SUBSET Data, open : BOOLEAN]
Sources == [position : [Keys -> 0..Length], epoch : Nat, rewinds : Nat, batch : SUBSET Items]
Places == {"next", "chunk", "flush", "flushing", "join", "stopWorkers", "decide", "tail",
           "file", "lastFile", "failed", "close", "ended"}
Readers == [at : Places, item : Items \union {<<>>}, end : BOOLEAN, then : Places,
            stopped : BOOLEAN, unit : FileUnits \union {<<>>}]
Threads == [item : Items \union {<<>>}, at : {"idle", "chunk", "flush", "flushing"}]

ThreadShape ==
    /\ reader \in Readers
    /\ reader.at = "chunk" => reader.item \in Items
    /\ queue \in Seq(Items) /\ Len(queue) <= 2 * Cardinality(Workers)
    /\ worker \in [Workers -> Threads]
    /\ \A w \in Workers : worker[w].at = "chunk" => worker[w].item \in Items
    /\ errors \in BOOLEAN /\ lost \in BOOLEAN /\ faults \in Nat
    /\ result \in {"running", "failed", "partial", "success"}

BufferShape ==
    /\ buf \in Buffers /\ lock \in Locks
    /\ IsFiniteSet(buf.records) /\ IsFiniteSet(lock.records)
    /\ ~Broker => buf.contributors = {} /\ lock.contributors = {} /\ buf.completed = {}

DataShape ==
    /\ cfg \in Configs
    /\ src \in Sources
    /\ DOMAIN units \subseteq UnitKeys /\ units \in [DOMAIN units -> Counts]
    /\ Broker => DOMAIN units \subseteq Items
    /\ acct \in Accounts
    /\ sink \in Sinks /\ sink.durable \subseteq sink.written
    /\ acked \subseteq Data
    /\ ckpt \in [Keys -> 0..Length]

Shape == ThreadShape /\ BufferShape /\ DataShape

\* Nobody processes an item and the queue is empty.
AllIdle == queue = <<>> /\ ~errors /\ \A w \in Workers : worker[w] = Idle

\* The reader is at one of the places, or flushes before it goes there.
Towards(places) ==
    \/ reader.at \in places
    \/ reader.at \in {"flush", "flushing"} /\ reader.then \in places

\* Where the threads are: who holds the lock, and what a settling reader waited for.
Control ==
    /\ ~Threaded => AllIdle
    /\ reader.at = "chunk" => ~Threaded
    /\ reader.at = "flushing" <=> lock.by = "reader"
    /\ \A w \in Workers : worker[w].at = "flushing" <=> lock.by = w
    /\ lock.by = "none" => lock = Free
    /\ lock.by # "none" /\ ~Broker => lock.records # {}
    /\ Towards({"decide", "file", "lastFile"}) => AllIdle
    /\ Towards({"tail", "close"}) /\ ~lost => AllIdle
    /\ reader.at \in {"file", "lastFile"} => lock = Free /\ ~Buffered
    /\ reader.at \in {"tail", "close"} /\ ~lost => lock = Free /\ ~Buffered
    /\ reader.at = "flushing" /\ reader.then \in {"file", "lastFile"} => ~Buffered
    /\ reader.at = "flushing" /\ reader.then = "tail" /\ ~lost => ~Buffered
    /\ reader.then = "failed" => reader.at \in {"stopWorkers", "flush", "flushing", "failed", "ended"}
    /\ reader.at \in {"flush", "flushing"} =>
          reader.then \in {"next", "decide", "tail", "file", "lastFile", "failed"}
    /\ reader.at = "join" => reader.then \in {"decide", "file", "lastFile"}
    /\ reader.at = "stopWorkers" => reader.then \in {"tail", "failed"}
    /\ reader.at \in {"file", "lastFile"} => reader.then # "failed"
    /\ result = "success" => reader.at = "ended"

\* An item is queued, or some thread processes it.
Among(s, i) == \E k \in DOMAIN s : s[k] = i
Working(i) ==
    \/ Among(queue, i)
    \/ \E w \in Workers : worker[w].at = "chunk" /\ worker[w].item = i
    \/ reader.at = "chunk" /\ reader.item = i

Contributors == buf.contributors \union lock.contributors
Contributes(u) == \E x \in Contributors : x[1] = u
Records == buf.records \union lock.records
Seen(u) == u \in DOMAIN units \/ Contributes(u) \/ Working(u) \/ u \in buf.completed

\* What is still to be yielded was never seen in this epoch.
Fresh ==
    Broker =>
        /\ \A u \in Items : Seen(u) =>
              /\ u \notin src.batch
              /\ u[3] < src.epoch \/ (u[3] = src.epoch /\ u[2] <= src.position[u[1]])
        /\ \A i \in src.batch : i[3] = src.epoch /\ i[2] <= src.position[i[1]]

\* Data the sink was never to have, or whose flush was swallowed.
Spared == sink.filtered \union sink.swallowed

\* What the counts of a unit say happened to its record.
Good(u) ==
    /\ units[u].delivered > 0 => Datum(u) \in sink.written
    /\ units[u].dlqOk > 0 => Datum(u) \in sink.dlq \union Spared

\* Its record left the pipeline, or the counts blame the unit.
Excused(u) ==
    \/ Datum(u) \in Spared
    \/ units[u].delivered > 0 \/ units[u].dlqOk > 0
    \/ units[u].failed > 0 \/ units[u].dlqFail > 0

BrokerUnits ==
    Broker =>
        /\ \A u \in DOMAIN units : Good(u)
        /\ \A x \in Contributors : x[1] \in DOMAIN units /\ ~x[2] => Excused(x[1])
        /\ \A x \in buf.contributors : x[2] => x[1] \in buf.records
        /\ \A x \in lock.contributors : x[2] => x[1] \in lock.records
        /\ buf.completed \subseteq DOMAIN units
        /\ \A u \in buf.completed : Excused(u)

\* A loss charged to a unit is a loss of the run; only losses are dropped.
Losses ==
    /\ \A u \in DOMAIN units : units[u].failed > 0 => acct.loss
    /\ sink.dropped # {} => acct.loss /\ cfg.onError = "continue"

Handled == sink.written \union Spared \union sink.dlq

\* A file read at once: its unit is charged only after its record left.
WholeFiles ==
    ~Broker /\ cfg.src # "sftp" =>
        /\ \A i \in Items : i \in src.batch \/ i \in Records \/ Working(i) => i[2] = 1
        /\ \A u \in DOMAIN units :
            \/ <<u[1], 1>> \in Handled
            \/ /\ ~(units[u].dlqOk > 0)
               /\ \/ units[u].failed > 0 \/ units[u].dlqFail > 0
                  \/ ~(units[u].in > 0) /\ ~(units[u].delivered > 0)

Failing == errors \/ reader.then = "failed"

\* The reader is about to settle the file before the next one, or the last one.
Nearing(f) ==
    \/ reader.at = f
    \/ reader.at \in {"join", "flush", "flushing"} /\ reader.then = f

\* The open file has a unit; a boundary is the end of an open file.
Files ==
    /\ reader.unit # <<>> => ~Broker /\ reader.unit \in DOMAIN units
    /\ \A f \in {"file", "lastFile"} : Nearing(f) => reader.unit # <<>>

\* A chunk is still to be read, in the pipeline, or left it.
Somewhere(i) == i \in src.batch \/ i \in Records \/ Working(i) \/ Datum(i) \in Handled

\* A file read in chunks: files are yielded whole and in order, and every
\* chunk of the open file is somewhere.
ChunkedFiles ==
    cfg.src = "sftp" =>
        /\ \A x \in src.batch : x[3] = 0 /\ (reader.unit # <<>> => reader.unit[1] <= x[1])
        /\ \A x \in src.batch : reader.unit = <<>> \/ x[1] # reader.unit[1] =>
              \A i \in Items : i[1] = x[1] /\ i[3] = 0 => i \in src.batch
        /\ Nearing("file") => \A x \in src.batch : x[1] # reader.unit[1]
        /\ Nearing("lastFile") => src.batch = {}
        /\ reader.unit # <<>> /\ ~acct.loss /\ ~lost /\ ~Failing =>
              \A i \in Items : i[1] = reader.unit[1] /\ i[3] = 0 => Somewhere(i)

\* Committed, spared, in the DLQ or dropped.
Accounted == sink.durable \union Spared \union sink.dlq \union sink.dropped

HasUnit(d) == \E v \in DOMAIN units : Datum(v) = d
Covered(p, o) == <<p, o>> \in Accounted \/ HasUnit(<<p, o>>) \/ acct.gaps[p] <= o

\* Every offset before a unit is settled, has a unit, or is behind a gap.
Coverage ==
    Broker =>
        /\ \A u \in DOMAIN units : \A o \in 1..Length : o < u[2] => Covered(u[1], o)
        /\ \A p \in Keys : \A o \in 1..Length : o <= src.position[p] =>
              Covered(p, o) \/ <<p, o, src.epoch>> \in src.batch

\* No unit is forgotten while nothing went wrong.
Located ==
    Broker /\ ~lost /\ ~Failing =>
        \A u \in DOMAIN units : Working(u) \/ Contributes(u) \/ u \in buf.completed

\* What was taken is acknowledged, has a unit, or the run knows of it.
Outstanding ==
    Broker =>
        /\ \A d \in Data : d[2] <= src.position[d[1]] =>
              d \in acked \/ <<d[1], d[2], src.epoch>> \in src.batch \/ HasUnit(d) \/ acct.pending
        /\ reader.at = "close" /\ ~lost => DOMAIN units = {}

AcksSettled == (cfg.src = "sftp" => ~acct.loss /\ ~lost) => acked \subseteq Accounted

CheckpointAccounted == Broker => \A p \in Keys, o \in 1..Length : o <= ckpt[p] => <<p, o>> \in Accounted

SuccessAccounted ==
    result = "success" /\ Broker /\ ~lost =>
        /\ {d \in Data : d[2] <= src.position[d[1]]} \ DataOf(src.batch) \subseteq acked
        /\ sink.dropped = {}

Inv ==
    /\ Shape /\ Control /\ Fresh /\ BrokerUnits /\ Losses /\ WholeFiles /\ Files /\ ChunkedFiles
    /\ Coverage /\ Located /\ Outstanding /\ AcksSettled /\ CheckpointAccounted /\ SuccessAccounted

-----------------------------------------------------------------------------
(* The operators.                                                          *)

\* The least member of a set of numbers.
LEMMA MinFacts ==
    ASSUME NEW S \in SUBSET Nat, S # {}
    PROVE  Min(S) \in S /\ \A x \in S : Min(S) <= x
<1> DEFINE R == {p \in Nat \X Nat : p[1] < p[2]}
<1>1. IsWellFoundedOn(R, Nat)
  BY Zenon, NatLessThanWellFounded DEF OpToRel
<1>2. PICK m \in S : \A y \in S : <<y, m>> \notin R
  <2> HIDE DEF R
  <2> QED
    BY Zenon, <1>1, WFMin
<1>3. ASSUME NEW y \in S PROVE m <= y
  <2>1. y < m => <<y, m>> \in R
    OBVIOUS
  <2> QED
    BY <1>2, <2>1
<1> QED
  BY Zenon, <1>3 DEF Min

\* The greatest member of a bounded set of numbers.
LEMMA MaxFacts ==
    ASSUME NEW S \in SUBSET (0..Length), S # {}
    PROVE  Max(S) \in S /\ \A x \in S : x <= Max(S)
<1> DEFINE B == {n \in Nat : \A x \in S : x <= n}
<1>1. S \subseteq Nat /\ Length \in B /\ B \subseteq Nat
  BY StreamConstants
<1>2. PICK m \in B : \A n \in B : m <= n
  BY Zenon, <1>1, MinFacts
<1>3. m \in S
  <2> SUFFICES ASSUME m \notin S PROVE FALSE
    OBVIOUS
  <2>1. \A x \in S : x < m
    BY <1>1, <1>2
  <2>2. m > 0
    <3>1. PICK x \in S : TRUE
      BY Zenon
    <3>2. x \in Nat /\ x < m /\ m \in Nat
      BY <1>1, <1>2, <2>1, <3>1
    <3> QED
      BY <3>2
  <2>3. m - 1 \in B
    BY <1>1, <1>2, <2>1, <2>2
  <2> QED
    BY <1>2, <2>3
<1>4. \A x \in S : x <= m
  BY Zenon, <1>2
<1>5. \E x \in S : \A y \in S : x >= y
  BY <1>1, <1>3, <1>4
<1>6. Max(S) \in S /\ \A y \in S : Max(S) >= y
  BY Zenon, <1>5 DEF Max
<1> QED
  BY <1>1, <1>6

\* A selected record makes the number of selected records positive.
LEMMA SomeSelected ==
    ASSUME NEW S, IsFiniteSet(S), Selected(S) # {}
    PROVE  Cardinality(Selected(S)) \in Nat /\ Cardinality(Selected(S)) > 0
<1>1. Selected(S) \subseteq S
  BY Zenon DEF Selected
<1>2. IsFiniteSet(Selected(S))
  BY Zenon, <1>1, FS_Subset
<1>3. Cardinality(Selected(S)) \in Nat /\ Cardinality(Selected(S)) # 0
  BY Zenon, <1>2, FS_CardinalityType, FS_EmptySet
<1> QED
  BY <1>3

\* The records the sink's condition lets through can be counted.
LEMMA CardinalitySelected ==
    ASSUME NEW S, IsFiniteSet(S)
    PROVE  Cardinality(Selected(S)) \in Nat
<1>1. Selected(S) \subseteq S
  BY Zenon DEF Selected
<1> QED
  BY Zenon, <1>1, FS_Subset, FS_CardinalityType

\* What an outcome says of the counts.
LEMMA DispositionFacts ==
    ASSUME NEW n \in Counts
    PROVE  /\ Disposition(n) = "delivered" => n.delivered > 0 /\ ~(n.failed > 0)
           /\ Disposition(n) = "dlq" => n.dlqOk > 0
           /\ Disposition(n) = "dropped" => n.failed > 0 /\ cfg.onError = "continue"
           /\ Disposition(n) = "filtered" =>
                 n.in > 0 /\ ~(n.delivered > 0) /\ ~(n.dlqOk > 0) /\ ~(n.failed > 0)
           /\ Disposition(n) # "undecided" => ~(n.dlqFail > 0)
           /\ Disposition(n) \in {"delivered", "dlq", "dropped", "filtered", "undecided"}
<1>1. n.in \in Nat /\ n.delivered \in Nat /\ n.failed \in Nat /\ n.dlqOk \in Nat /\ n.dlqFail \in Nat
  BY DEF Counts
<1> QED
  BY <1>1 DEF Disposition

\* A settled disposition of a unit that is good and excused settles its record.
LEMMA DecidedIsSettled ==
    ASSUME NEW u \in DOMAIN units, units[u] \in Counts, Good(u), Excused(u), Decided(u)
    PROVE  \/ Datum(u) \in sink.written \union Spared \union sink.dlq
           \/ Disposition(units[u]) = "dropped"
<1> DEFINE n == units[u]
<1>1. /\ Disposition(n) = "delivered" => n.delivered > 0 /\ ~(n.failed > 0)
      /\ Disposition(n) = "dlq" => n.dlqOk > 0
      /\ Disposition(n) = "filtered" =>
                 n.in > 0 /\ ~(n.delivered > 0) /\ ~(n.dlqOk > 0) /\ ~(n.failed > 0)
      /\ Disposition(n) # "undecided" => ~(n.dlqFail > 0)
      /\ Disposition(n) \in {"delivered", "dlq", "dropped", "filtered", "undecided"}
  BY Zenon, DispositionFacts
<1>2. Disposition(n) # "undecided"
  BY Zenon DEF Decided
<1> QED
  BY Zenon, <1>1, <1>2 DEF Good, Excused

\* The queue: what Append and Tail do to the queued items.
LEMMA AppendQueue ==
    ASSUME NEW S, NEW s \in Seq(S), NEW i \in S, NEW t, t = Append(s, i)
    PROVE  /\ t \in Seq(S) /\ Len(t) = Len(s) + 1
           /\ \A j : Among(t, j) <=> (j = i \/ Among(s, j))
<1>1. t \in Seq(S) /\ Len(t) = Len(s) + 1 /\ Len(s) \in Nat
  OBVIOUS
<1>2. DOMAIN t = 1..(Len(s) + 1) /\ DOMAIN s = 1..Len(s) /\ t[Len(s) + 1] = i
  BY <1>1
<1>3. \A k \in 1..Len(s) : t[k] = s[k]
  BY <1>1
<1>4. \A k \in 1..(Len(s) + 1) : k = Len(s) + 1 \/ k \in 1..Len(s)
  BY <1>1
<1>5. 1..Len(s) \subseteq 1..(Len(s) + 1) /\ Len(s) + 1 \in 1..(Len(s) + 1)
  BY <1>1
<1> QED
  BY Zenon, <1>1, <1>2, <1>3, <1>4, <1>5 DEF Among

\* What chunk_q holds after a get.
LEMMA TailQueue ==
    ASSUME NEW S, NEW s \in Seq(S), s # <<>>, NEW t, t = Tail(s)
    PROVE  /\ t \in Seq(S) /\ Len(t) = Len(s) - 1 /\ Head(s) \in S
           /\ \A j : Among(s, j) <=> (j = Head(s) \/ Among(t, j))
<1>1. t \in Seq(S) /\ Len(t) = Len(s) - 1 /\ Len(s) \in Nat /\ Len(s) # 0 /\ Head(s) = s[1] /\ Head(s) \in S
  OBVIOUS
<1>2. DOMAIN t = 1..(Len(s) - 1) /\ DOMAIN s = 1..Len(s)
  BY <1>1
<1>3. \A k \in 1..(Len(s) - 1) : t[k] = s[k + 1] /\ k + 1 \in 1..Len(s)
  BY <1>1
<1>4. \A k \in 1..Len(s) : k = 1 \/ \E m \in 1..(Len(s) - 1) : k = m + 1
  <2> SUFFICES ASSUME NEW k \in 1..Len(s), k # 1 PROVE k - 1 \in 1..(Len(s) - 1) /\ k = (k - 1) + 1
    BY Zenon
  <2> QED
    BY <1>1
<1>5. 1 \in 1..Len(s)
  BY <1>1
<1>6. ASSUME NEW k \in 1..Len(s) PROVE s[k] = Head(s) \/ \E m \in DOMAIN t : t[m] = s[k]
  BY Zenon, <1>1, <1>2, <1>3, <1>4
<1>7. ASSUME NEW k \in DOMAIN t PROVE \E m \in DOMAIN s : s[m] = t[k]
  BY Zenon, <1>2, <1>3
<1>8. \E m \in DOMAIN s : s[m] = Head(s)
  BY Zenon, <1>1, <1>2, <1>5
<1>9. ASSUME NEW j PROVE Among(s, j) <=> (j = Head(s) \/ Among(t, j))
  <2>1. ASSUME NEW k \in DOMAIN s PROVE s[k] = Head(s) \/ Among(t, s[k])
    BY Zenon, <1>2, <1>6 DEF Among
  <2>2. Among(s, Head(s)) /\ \A k \in DOMAIN t : Among(s, t[k])
    BY Zenon, <1>7, <1>8 DEF Among
  <2>3. Among(s, j) => (j = Head(s) \/ Among(t, j))
    <3>1. ASSUME NEW k \in DOMAIN s, s[k] = j PROVE j = Head(s) \/ Among(t, j)
      BY Zenon, <2>1, <3>1
    <3> QED
      BY Zenon, <3>1 DEF Among
  <2>4. Among(t, j) => Among(s, j)
    <3>1. ASSUME NEW k \in DOMAIN t, t[k] = j PROVE Among(s, j)
      BY Zenon, <2>2, <3>1
    <3> QED
      BY Zenon, <3>1 DEF Among
  <2>5. j = Head(s) => Among(s, j)
    BY Zenon, <2>2
  <2> QED
    BY Zenon, <2>3, <2>4, <2>5
<1> QED
  BY Zenon, <1>1, <1>9

-----------------------------------------------------------------------------
(* What the steps do, field by field.                                      *)

\* What processing item i does to the counts n of its unit.
Charges(n, m, kind) ==
    /\ m.delivered = n.delivered
    /\ ~Broker => m.in = n.in
    /\ kind \in {"keeps", "filters", "aborts"} =>
          m.failed = n.failed /\ m.dlqOk = n.dlqOk /\ m.dlqFail = n.dlqFail
    /\ kind = "letters" => m.dlqOk > 0 /\ m.failed = n.failed /\ m.dlqFail = n.dlqFail
    /\ kind = "loses" =>
          /\ m.dlqOk = n.dlqOk
          /\ m.failed > 0 \/ m.dlqFail > 0
          /\ n.failed > 0 => m.failed > 0
          /\ n.dlqFail > 0 => m.dlqFail > 0

\* The item is kept, filtered, sent to the DLQ, lost, or aborts the run.
ProcStep(i, raises, kind) ==
    /\ kind \in {"keeps", "filters"} => ~raises
    /\ kind = "aborts" => raises
    /\ buf' = IF raises THEN buf ELSE Appended(i, kind = "keeps")
    /\ acct' \in Accounts /\ acct'.pending = acct.pending /\ acct'.gaps = acct.gaps
    /\ acct'.loss <=> acct.loss \/ kind = "loses"
    /\ sink' \in Sinks /\ sink'.written = sink.written /\ sink'.durable = sink.durable
    /\ sink'.dropped = sink.dropped
    /\ Spared' = IF kind = "filters" THEN Spared \union {Datum(i)} ELSE Spared
    /\ sink'.dlq = IF kind = "letters" THEN sink.dlq \union {Datum(i)} ELSE sink.dlq
    /\ DOMAIN units' = DOMAIN units /\ units' \in [DOMAIN units -> Counts]
    /\ \A u \in DOMAIN units : u # UnitOf(i) => units'[u] = units[u]
    /\ UnitOf(i) \in DOMAIN units => Charges(units[UnitOf(i)], units'[UnitOf(i)], kind)
    /\ faults' \in Nat

\* Counting: In and Lost.
LEMMA CountsIn ==
    ASSUME NEW n \in Counts, NEW m, m = In(n)
    PROVE  /\ m \in Counts /\ m.delivered = n.delivered /\ (~Broker => m.in = n.in)
           /\ m.failed = n.failed /\ m.dlqOk = n.dlqOk /\ m.dlqFail = n.dlqFail
BY DEF In, Counts

\* m is the account n after a loss: a dead letter, or a failure.
CountedLost(n, ok, m) ==
    /\ m \in Counts /\ m.delivered = n.delivered /\ m.in = n.in
    /\ cfg.dlq /\ ok => m.dlqOk > 0 /\ m.failed = n.failed /\ m.dlqFail = n.dlqFail
    /\ ~(cfg.dlq /\ ok) =>
          /\ m.dlqOk = n.dlqOk
          /\ m.failed > 0 \/ m.dlqFail > 0
          /\ n.failed > 0 => m.failed > 0
          /\ n.dlqFail > 0 => m.dlqFail > 0

\* A lost record is charged to its unit: as a dead letter, or as a failure.
LEMMA CountsLost ==
    ASSUME NEW n \in Counts, NEW count \in Nat, count > 0, NEW ok \in BOOLEAN, NEW m, m = Lost(n, count, ok)
    PROVE  CountedLost(n, ok, m)
<1>1. n.in \in Nat /\ n.delivered \in Nat /\ n.failed \in Nat /\ n.dlqOk \in Nat /\ n.dlqFail \in Nat
  BY DEF Counts
<1>2. CASE ~cfg.dlq
  <2>1. m = [n EXCEPT !.failed = n.failed + count]
    BY Zenon, <1>2 DEF Lost
  <2> QED
    BY <1>1, <1>2, <2>1 DEF Counts, CountedLost
<1>3. CASE cfg.dlq /\ ok
  <2>1. m = [n EXCEPT !.dlqOk = n.dlqOk + 1, !.dlqFail = n.dlqFail + 0]
    BY Zenon, <1>3 DEF Lost
  <2>2. /\ m \in Counts /\ m.delivered = n.delivered /\ m.in = n.in
        /\ m.dlqOk = n.dlqOk + 1 /\ m.failed = n.failed /\ m.dlqFail = n.dlqFail + 0
    <3>1. n.dlqOk + 1 \in Nat /\ n.dlqFail + 0 \in Nat
      BY <1>1
    <3> QED
      BY Zenon, <1>1, <2>1, <3>1 DEF Counts
  <2>3. m.dlqOk > 0 /\ m.dlqFail = n.dlqFail
    BY <1>1, <2>2
  <2> QED
    BY Zenon, <1>3, <2>2, <2>3 DEF CountedLost
<1>4. CASE cfg.dlq /\ ~ok
  <2>1. m = [n EXCEPT !.dlqOk = n.dlqOk + 0, !.dlqFail = n.dlqFail + 1]
    BY Zenon, <1>4 DEF Lost
  <2>2. /\ m \in Counts /\ m.delivered = n.delivered /\ m.in = n.in
        /\ m.dlqOk = n.dlqOk + 0 /\ m.failed = n.failed /\ m.dlqFail = n.dlqFail + 1
    <3>1. n.dlqOk + 0 \in Nat /\ n.dlqFail + 1 \in Nat
      BY <1>1
    <3> QED
      BY Zenon, <1>1, <2>1, <3>1 DEF Counts
  <2>3. m.dlqFail > 0 /\ m.dlqOk = n.dlqOk
    BY <1>1, <2>2
  <2> QED
    BY Zenon, <1>4, <2>2, <2>3 DEF CountedLost
<1> QED
  BY Zenon, <1>2, <1>3, <1>4

\* A loss is a loss of the run unless a dead letter has it.
LEMMA RunLossFacts ==
    ASSUME NEW a \in Accounts, NEW ok \in BOOLEAN, NEW b, b = RunLoss(a, ok)
    PROVE  /\ b \in Accounts /\ b.pending = a.pending /\ b.gaps = a.gaps
           /\ b.loss <=> a.loss \/ ~(cfg.dlq /\ ok)
BY Zenon DEF RunLoss, Accounts

\* The parts of an item, its datum and its unit.
LEMMA ItemFacts ==
    ASSUME NEW i \in Items
    PROVE  /\ Datum(i) \in Data /\ i \in UnitKeys /\ UnitOf(i) \in UnitKeys
           /\ i[1] \in Keys /\ i[2] \in 1..Length /\ i[3] \in Nat
           /\ i = <<i[1], i[2], i[3]>>
           /\ Broker => UnitOf(i) = i
           /\ ~Broker => UnitOf(i) = <<i[1], 0, 0>>
BY DEF Items, Datum, Data, UnitKeys, UnitOf

\* The three outcomes of a chunk.
LEMMA ProcessFacts ==
    ASSUME Shape, NEW i \in Items, NEW end, NEW raises \in BOOLEAN, NEW flush \in BOOLEAN,
           Process(i, end, raises, flush)
    PROVE  /\ \E kind \in {"keeps", "filters", "letters", "loses", "aborts"} : ProcStep(i, raises, kind)
           /\ raises => ~flush
           /\ ~raises => flush \in MayFlush(buf', end)
<1> DEFINE u == UnitOf(i)
           Apply(o) ==
            /\ raises = o.raises
            /\ flush \in IF raises THEN {FALSE} ELSE MayFlush(o.buf, end)
            /\ units' = [units EXCEPT ![u] = o.counts]
            /\ buf' = o.buf /\ acct' = o.acct /\ sink' = o.sink
<1>1. /\ acct \in Accounts /\ sink \in Sinks /\ faults \in Nat
      /\ units \in [DOMAIN units -> Counts] /\ Datum(i) \in Data
      /\ u \in DOMAIN units => units[u] \in Counts
  BY Zenon, ItemFacts DEF Shape, ThreadShape, BufferShape, DataShape
<1>2. ASSUME NEW o, Apply(o)
      PROVE  /\ raises => ~flush
             /\ ~raises => flush \in MayFlush(buf', end)
             /\ DOMAIN units' = DOMAIN units
             /\ \A v \in DOMAIN units : v # u => units'[v] = units[v]
             /\ u \in DOMAIN units => units'[u] = o.counts
             /\ (u \in DOMAIN units => o.counts \in Counts) => units' \in [DOMAIN units -> Counts]
  BY Zenon, <1>1, <1>2
<1>3. ASSUME NEW kept \in BOOLEAN, Apply(Processed(i, kept)), UNCHANGED faults
      PROVE  ProcStep(i, raises, IF kept THEN "keeps" ELSE "filters")
  <2>1. /\ raises = FALSE /\ buf' = Appended(i, kept) /\ acct' = acct
        /\ sink' = IF kept THEN sink ELSE Filter(i)
        /\ Processed(i, kept).counts = In(units[u])
    BY Zenon, <1>3 DEF Processed, Outcome
  <2>2. u \in DOMAIN units => In(units[u]) \in Counts /\ Charges(units[u], In(units[u]), IF kept THEN "keeps" ELSE "filters")
    BY Zenon, <1>1, CountsIn DEF Charges
  <2>3. /\ sink' \in Sinks /\ sink'.written = sink.written /\ sink'.durable = sink.durable
        /\ sink'.dropped = sink.dropped /\ sink'.dlq = sink.dlq
        /\ Spared' = IF kept THEN Spared ELSE Spared \union {Datum(i)}
    BY Zenon, <1>1, <2>1 DEF Sinks, Filter, Spared
  <2> QED
    BY Zenon, <1>1, <1>2, <1>3, <2>1, <2>2, <2>3 DEF ProcStep
<1>4. ASSUME NEW ok \in BOOLEAN, Apply(ParseError(i, ok)), FaultCost(ok)
      PROVE  ProcStep(i, raises, IF cfg.dlq /\ ok THEN "letters" ELSE "loses")
  <2>1. /\ buf' = (IF raises THEN buf ELSE Appended(i, FALSE)) /\ acct' = RunLoss(acct, ok)
        /\ sink' = DLQd({Datum(i)}, ok)
        /\ ParseError(i, ok).counts = Lost(units[u], 1, ok)
    BY Zenon, <1>4 DEF ParseError, Outcome
  <2>2. u \in DOMAIN units => /\ Lost(units[u], 1, ok) \in Counts
                              /\ Charges(units[u], Lost(units[u], 1, ok), IF cfg.dlq /\ ok THEN "letters" ELSE "loses")
    <3>1. 1 \in Nat /\ 1 > 0
      OBVIOUS
    <3>2. ASSUME u \in DOMAIN units PROVE CountedLost(units[u], ok, Lost(units[u], 1, ok))
      BY Zenon, <1>1, <3>1, <3>2, CountsLost
    <3> QED
      BY Zenon, <3>2 DEF CountedLost, Charges
  <2>3. /\ sink' \in Sinks /\ sink'.written = sink.written /\ sink'.durable = sink.durable
        /\ sink'.dropped = sink.dropped /\ Spared' = Spared
        /\ sink'.dlq = IF cfg.dlq /\ ok THEN sink.dlq \union {Datum(i)} ELSE sink.dlq
    BY Zenon, <1>1, <2>1 DEF Sinks, DLQd, Spared
  <2>4. /\ acct' \in Accounts /\ acct'.pending = acct.pending /\ acct'.gaps = acct.gaps
        /\ acct'.loss <=> acct.loss \/ ~(cfg.dlq /\ ok)
    BY Zenon, <1>1, <2>1, RunLossFacts
  <2>5. faults' \in Nat
    BY <1>1, <1>4 DEF FaultCost, Fault
  <2> QED
    BY Zenon, <1>1, <1>2, <1>4, <2>1, <2>2, <2>3, <2>4, <2>5 DEF ProcStep
<1>5. ASSUME NEW ok \in BOOLEAN, Apply(TransformError(i, ok)), FaultCost(ok), cfg.onError = "abort"
      PROVE  ProcStep(i, raises, "aborts")
  <2>1. /\ raises = TRUE /\ buf' = buf /\ acct' = acct /\ sink' = sink
        /\ TransformError(i, ok).counts = In(units[u])
    BY Zenon, <1>5 DEF TransformError, Outcome
  <2>2. u \in DOMAIN units => In(units[u]) \in Counts /\ Charges(units[u], In(units[u]), "aborts")
    BY Zenon, <1>1, CountsIn DEF Charges
  <2>3. faults' \in Nat
    BY <1>1, <1>5 DEF FaultCost, Fault
  <2> QED
    BY Zenon, <1>1, <1>2, <1>5, <2>1, <2>2, <2>3 DEF ProcStep, Spared
<1>6. ASSUME NEW ok \in BOOLEAN, Apply(TransformError(i, ok)), FaultCost(ok), cfg.onError # "abort"
      PROVE  ProcStep(i, raises, IF cfg.dlq /\ ok THEN "letters" ELSE "loses")
  <2>1. /\ buf' = (IF raises THEN buf ELSE Appended(i, FALSE)) /\ acct' = RunLoss(acct, ok)
        /\ sink' = DLQd({Datum(i)}, ok)
        /\ TransformError(i, ok).counts = Lost(In(units[u]), 1, ok)
    BY Zenon, <1>6 DEF TransformError, Outcome
  <2>2. ASSUME u \in DOMAIN units
        PROVE  /\ Lost(In(units[u]), 1, ok) \in Counts
               /\ Charges(units[u], Lost(In(units[u]), 1, ok), IF cfg.dlq /\ ok THEN "letters" ELSE "loses")
    <3>1. PICK m : m = In(units[u])
      OBVIOUS
    <3>2. /\ m \in Counts /\ m.delivered = units[u].delivered /\ (~Broker => m.in = units[u].in)
          /\ m.failed = units[u].failed /\ m.dlqOk = units[u].dlqOk /\ m.dlqFail = units[u].dlqFail
      BY Zenon, <1>1, <2>2, <3>1, CountsIn
    <3>3. PICK x : x = Lost(m, 1, ok)
      OBVIOUS
    <3>4. CountedLost(m, ok, x)
      <4>1. 1 \in Nat /\ 1 > 0
        OBVIOUS
      <4> QED
        BY Zenon, <3>2, <3>3, <4>1, CountsLost
    <3>5. Charges(units[u], x, IF cfg.dlq /\ ok THEN "letters" ELSE "loses")
      BY Zenon, <3>2, <3>4 DEF Charges, CountedLost
    <3> QED
      BY Zenon, <3>1, <3>3, <3>4, <3>5 DEF CountedLost
  <2>3. /\ sink' \in Sinks /\ sink'.written = sink.written /\ sink'.durable = sink.durable
        /\ sink'.dropped = sink.dropped /\ Spared' = Spared
        /\ sink'.dlq = IF cfg.dlq /\ ok THEN sink.dlq \union {Datum(i)} ELSE sink.dlq
    BY Zenon, <1>1, <2>1 DEF Sinks, DLQd, Spared
  <2>4. /\ acct' \in Accounts /\ acct'.pending = acct.pending /\ acct'.gaps = acct.gaps
        /\ acct'.loss <=> acct.loss \/ ~(cfg.dlq /\ ok)
    BY Zenon, <1>1, <2>1, RunLossFacts
  <2>5. faults' \in Nat
    BY <1>1, <1>6 DEF FaultCost, Fault
  <2> QED
    BY Zenon, <1>1, <1>2, <1>6, <2>1, <2>2, <2>3, <2>4, <2>5 DEF ProcStep
<1>7. \/ \E kept \in BOOLEAN : Apply(Processed(i, kept)) /\ UNCHANGED faults
      \/ \E ok \in BOOLEAN : (Apply(ParseError(i, ok)) \/ Apply(TransformError(i, ok))) /\ FaultCost(ok)
  BY Zenon DEF Process
<1> HIDE DEF Apply
<1>8. CASE \E kept \in BOOLEAN : Apply(Processed(i, kept)) /\ UNCHANGED faults
  BY Zenon, <1>2, <1>3, <1>8
<1>9. CASE \E ok \in BOOLEAN : (Apply(ParseError(i, ok)) \/ Apply(TransformError(i, ok))) /\ FaultCost(ok)
  BY Zenon, <1>2, <1>4, <1>5, <1>6, <1>9
<1> QED
  BY Zenon, <1>7, <1>8, <1>9

\* A cohort's counts c are those of a flush of this kind.
Matches(c, kind) ==
    /\ c \in Counts
    /\ c.delivered > 0 => kind = "writes"
    /\ kind = "writes" /\ Selected(lock.records) # {} => c.delivered > 0
    /\ c.dlqOk > 0 <=> kind = "letters"
    /\ c.failed > 0 \/ c.dlqFail > 0 <=> kind = "loses"

\* What a contributor's counts n become after its flush.
Shares(n, m, u, kind) ==
    /\ m.delivered > 0 => n.delivered > 0 \/ (kind = "writes" /\ Datum(u) \notin NoMatch)
    /\ m.dlqOk > 0 => n.dlqOk > 0 \/ kind = "letters"
    /\ m.failed > 0 => n.failed > 0 \/ kind = "loses"
    /\ n.delivered > 0 => m.delivered > 0
    /\ n.dlqOk > 0 => m.dlqOk > 0
    /\ n.failed > 0 => m.failed > 0
    /\ n.dlqFail > 0 => m.dlqFail > 0
    /\ kind = "writes" /\ Datum(u) \notin NoMatch /\ Selected(lock.records) # {} => m.delivered > 0
    /\ kind = "letters" => m.dlqOk > 0
    /\ kind = "loses" => m.failed > 0 \/ m.dlqFail > 0

Joined(u) == \E x \in lock.contributors : x[1] = u

\* What a flush charges to the units.
FlushCharges(kind, raises) ==
    /\ DOMAIN units' = DOMAIN units /\ units' \in [DOMAIN units -> Counts]
    /\ Broker /\ raises => units' = units
    /\ Broker /\ ~raises => \A u \in DOMAIN units :
          \/ units'[u] = units[u] /\ (~Joined(u) \/ <<u, FALSE>> \in lock.contributors)
          \/ <<u, TRUE>> \in lock.contributors /\ Shares(units[u], units'[u], u, kind)
    /\ ~Broker => \A u \in DOMAIN units :
          \/ units'[u] = units[u]
          \/ \E i \in lock.records :
                /\ u = UnitOf(i) /\ kind # "crashes"
                /\ kind = "loses" => units'[u].failed > 0 \/ units'[u].dlqFail > 0
                /\ units'[u].failed > 0 => units[u].failed > 0 \/ kind = "loses"
                /\ units'[u].dlqOk > 0 => units[u].dlqOk > 0 \/ kind = "letters"

\* What a flush that returns leaves in the buffer.
FlushCompletes(raises) ==
    /\ buf' \in Buffers /\ buf'.records = buf.records /\ buf'.contributors = buf.contributors
    /\ raises \/ ~Broker => buf'.completed = buf.completed
    /\ ~raises /\ Broker => buf'.completed = buf.completed \union {u \in DOMAIN units : Joined(u)}

FlushStep(kind, raises) ==
    /\ lock.by # "none" /\ lock' = Free
    /\ IF raises THEN Raises(lock.by) ELSE Returns(lock.by)
    /\ kind \in {"writes", "swallows"} => ~raises
    /\ kind = "crashes" => raises
    /\ FlushCompletes(raises) /\ FlushCharges(kind, raises)
    /\ acct' \in Accounts /\ acct'.pending = acct.pending /\ acct'.gaps = acct.gaps
    /\ acct'.loss <=> acct.loss \/ kind = "loses"
    /\ sink' \in Sinks /\ sink'.durable = sink.durable /\ sink'.dropped = sink.dropped
    /\ sink'.written = IF kind = "writes" THEN sink.written \union DataOf(Selected(lock.records)) ELSE sink.written
    /\ sink'.dlq = IF kind = "letters" THEN sink.dlq \union DataOf(Selected(lock.records)) ELSE sink.dlq
    /\ Spared' = CASE kind = "crashes"  -> Spared
                   [] kind = "swallows" -> Spared \union DataOf(lock.records)
                   [] OTHER             -> Spared \union Unselected
    /\ faults' \in Nat
    /\ FlushUnchanged

\* A sum of counts is positive when one of them is.
LEMMA SumPositive ==
    ASSUME NEW a \in Nat, NEW b \in Nat, NEW m, m = a + b
    PROVE  m > 0 <=> a > 0 \/ b > 0
OBVIOUS

\* A contributor's share of the cohort's counts.
LEMMA ContributedFacts ==
    ASSUME NEW n \in Counts, NEW u, NEW c, NEW kind, Matches(c, kind), NEW m, m = Contributed(n, u, TRUE, c)
    PROVE  m \in Counts /\ Shares(n, m, u, kind)
<1>1. /\ n.in \in Nat /\ n.delivered \in Nat /\ n.failed \in Nat /\ n.dlqOk \in Nat /\ n.dlqFail \in Nat
      /\ c.in \in Nat /\ c.delivered \in Nat /\ c.failed \in Nat /\ c.dlqOk \in Nat /\ c.dlqFail \in Nat
  BY DEF Counts, Matches
<1>2. m = [n EXCEPT !.failed = n.failed + c.failed, !.dlqOk = n.dlqOk + c.dlqOk,
                    !.dlqFail = n.dlqFail + c.dlqFail,
                    !.delivered = IF c.delivered > 0 /\ Datum(u) \notin NoMatch THEN n.delivered + 1 ELSE n.delivered]
  BY Zenon DEF Contributed
<1>3. /\ n.failed + c.failed \in Nat /\ n.dlqOk + c.dlqOk \in Nat /\ n.dlqFail + c.dlqFail \in Nat
      /\ n.delivered + 1 \in Nat
  BY <1>1
<1>4. /\ m.failed = n.failed + c.failed /\ m.dlqOk = n.dlqOk + c.dlqOk
      /\ m.dlqFail = n.dlqFail + c.dlqFail
  BY Zenon, <1>1, <1>2, <1>3 DEF Counts
<1>5. /\ m \in Counts
      /\ m.delivered = IF c.delivered > 0 /\ Datum(u) \notin NoMatch THEN n.delivered + 1 ELSE n.delivered
  BY Zenon, <1>1, <1>2, <1>3 DEF Counts
<1>6. /\ m.failed > 0 <=> n.failed > 0 \/ c.failed > 0
      /\ m.dlqOk > 0 <=> n.dlqOk > 0 \/ c.dlqOk > 0
      /\ m.dlqFail > 0 <=> n.dlqFail > 0 \/ c.dlqFail > 0
  BY Zenon, <1>1, <1>4, SumPositive
<1>7. n.delivered + 1 > 0
  BY <1>1
<1> QED
  BY Zenon, <1>4, <1>5, <1>6, <1>7 DEF Shares, Matches

\* A file's unit is charged with the whole flush, of k records.
Summed(n, c, k) ==
    [in |-> n.in + k, delivered |-> n.delivered + c.delivered, failed |-> n.failed + c.failed,
     dlqOk |-> n.dlqOk + c.dlqOk, dlqFail |-> n.dlqFail + c.dlqFail]

\* Adding a step's counts to those of a unit.
LEMMA SumFacts ==
    ASSUME NEW n \in Counts, NEW c, NEW kind, Matches(c, kind), NEW k \in Nat, NEW m,
           m = Summed(n, c, k)
    PROVE  /\ m \in Counts
           /\ kind = "loses" => m.failed > 0 \/ m.dlqFail > 0
           /\ m.failed > 0 => n.failed > 0 \/ kind = "loses"
           /\ m.dlqOk > 0 => n.dlqOk > 0 \/ kind = "letters"
<1>1. /\ n.in \in Nat /\ n.delivered \in Nat /\ n.failed \in Nat /\ n.dlqOk \in Nat /\ n.dlqFail \in Nat
      /\ c.in \in Nat /\ c.delivered \in Nat /\ c.failed \in Nat /\ c.dlqOk \in Nat /\ c.dlqFail \in Nat
  BY DEF Counts, Matches
<1>2. /\ n.in + k \in Nat /\ n.delivered + c.delivered \in Nat /\ n.failed + c.failed \in Nat
      /\ n.dlqOk + c.dlqOk \in Nat /\ n.dlqFail + c.dlqFail \in Nat
  BY <1>1
<1>3. m \in Counts /\ m.failed = n.failed + c.failed /\ m.dlqFail = n.dlqFail + c.dlqFail /\ m.dlqOk = n.dlqOk + c.dlqOk
  BY Zenon, <1>2 DEF Counts, Summed
<1>4. /\ m.failed > 0 <=> n.failed > 0 \/ c.failed > 0
      /\ m.dlqFail > 0 <=> n.dlqFail > 0 \/ c.dlqFail > 0
      /\ m.dlqOk > 0 <=> n.dlqOk > 0 \/ c.dlqOk > 0
  BY Zenon, <1>1, <1>3, SumPositive
<1> QED
  BY Zenon, <1>3, <1>4 DEF Matches

\* A flush that returns.
LEMMA CompletesFacts ==
    ASSUME Shape, Control, lock.by # "none", NEW c, NEW kind, kind # "crashes", Matches(c, kind), Completes(c)
    PROVE  FlushCharges(kind, FALSE) /\ FlushCompletes(FALSE)
<1>1. /\ units \in [DOMAIN units -> Counts] /\ buf \in Buffers
      /\ lock.contributors \subseteq Items \X BOOLEAN /\ IsFiniteSet(lock.records)
      /\ Broker => DOMAIN units \subseteq Items
  BY Zenon DEF Shape, ThreadShape, BufferShape, DataShape, Locks
<1>2. CASE Broker
  <2> DEFINE mine(u) == {x \in lock.contributors : x[1] = u}
             share(u) == Contributed(units[u], u, (CHOOSE y \in mine(u) : TRUE)[2], c)
             now(u) == IF mine(u) = {} THEN units[u] ELSE share(u)
  <2>1. /\ units' = [u \in DOMAIN units |-> now(u)]
        /\ buf' = [buf EXCEPT !.completed = @ \union {x[1] : x \in {y \in lock.contributors : y[1] \in DOMAIN units}}]
    BY Zenon, <1>2 DEF Completes
  <2>2. ASSUME NEW u \in DOMAIN units
        PROVE  /\ now(u) \in Counts
               /\ \/ now(u) = units[u] /\ (~Joined(u) \/ <<u, FALSE>> \in lock.contributors)
                  \/ <<u, TRUE>> \in lock.contributors /\ Shares(units[u], now(u), u, kind)
    <3>1. CASE mine(u) = {}
      BY Zenon, <1>1, <3>1 DEF Joined
    <3>2. CASE mine(u) # {}
      <4>1. PICK y : y = CHOOSE z \in mine(u) : TRUE
        OBVIOUS
      <4>2. y \in lock.contributors /\ y[1] = u /\ now(u) = Contributed(units[u], u, y[2], c)
        BY Zenon, <3>2, <4>1
      <4> HIDE DEF mine, share, now
      <4>3. y = <<u, y[2]>> /\ y[2] \in BOOLEAN
        BY <1>1, <4>2
      <4>4. CASE y[2] = TRUE
        BY Zenon, <1>1, <4>2, <4>3, <4>4, ContributedFacts
      <4>5. CASE y[2] = FALSE
        BY Zenon, <1>1, <4>2, <4>3, <4>5 DEF Contributed
      <4> QED
        BY Zenon, <4>3, <4>4, <4>5
    <3> QED
      BY Zenon, <3>1, <3>2
  <2> HIDE DEF mine, share, now
  <2>3. /\ DOMAIN units' = DOMAIN units /\ units' \in [DOMAIN units -> Counts]
        /\ \A u \in DOMAIN units : units'[u] = now(u)
    BY Zenon, <2>1, <2>2
  <2>4. {x[1] : x \in {y \in lock.contributors : y[1] \in DOMAIN units}} = {u \in DOMAIN units : Joined(u)}
    BY Zenon DEF Joined
  <2>5. {u \in DOMAIN units : Joined(u)} \subseteq Items
    BY Zenon, <1>1, <1>2
  <2>6. FlushCompletes(FALSE)
    BY Zenon, <1>1, <1>2, <2>1, <2>4, <2>5 DEF FlushCompletes, Buffers
  <2>7. FlushCharges(kind, FALSE)
    <3>1. ASSUME NEW u \in DOMAIN units
          PROVE  \/ units'[u] = units[u] /\ (~Joined(u) \/ <<u, FALSE>> \in lock.contributors)
                 \/ <<u, TRUE>> \in lock.contributors /\ Shares(units[u], units'[u], u, kind)
      <4>1. PICK m : m = units'[u] /\ m = now(u)
        BY Zenon, <2>3
      <4> QED
        BY Zenon, <2>2, <4>1
    <3> QED
      BY Zenon, <1>2, <2>3, <3>1 DEF FlushCharges
  <2> QED
    BY Zenon, <2>6, <2>7
<1>3. CASE ~Broker
  <2>1. PICK i \in lock.records : i = CHOOSE j \in lock.records : TRUE
    BY Zenon, <1>3 DEF Control
  <2>2. PICK u : u = UnitOf(i)
    OBVIOUS
  <2>3. PICK k : k = Cardinality(lock.records)
    OBVIOUS
  <2>4. k \in Nat
    BY Zenon, <1>1, <2>3, FS_CardinalityType
  <2>5. PICK n : n = units[u]
    OBVIOUS
  <2>6. PICK sum : sum = Summed(n, c, k)
    OBVIOUS
  <2>7. /\ units' = IF u \in DOMAIN units THEN [units EXCEPT ![u] = sum] ELSE units
        /\ buf' = buf
    BY Zenon, <1>3, <2>6, <2>5, <2>1, <2>2, <2>3 DEF Completes, Summed
  <2>8. u \in DOMAIN units =>
           /\ sum \in Counts
           /\ kind = "loses" => sum.failed > 0 \/ sum.dlqFail > 0
           /\ sum.failed > 0 => units[u].failed > 0 \/ kind = "loses"
           /\ sum.dlqOk > 0 => units[u].dlqOk > 0 \/ kind = "letters"
    <3> SUFFICES ASSUME u \in DOMAIN units
                 PROVE  /\ sum \in Counts
                        /\ kind = "loses" => sum.failed > 0 \/ sum.dlqFail > 0
                        /\ sum.failed > 0 => n.failed > 0 \/ kind = "loses"
                        /\ sum.dlqOk > 0 => n.dlqOk > 0 \/ kind = "letters"
      BY Zenon, <2>5
    <3>1. n \in Counts
      BY Zenon, <1>1, <2>5
    <3> QED
      BY Zenon, <2>6, <2>4, <3>1, SumFacts
  <2>9. /\ DOMAIN units' = DOMAIN units /\ units' \in [DOMAIN units -> Counts]
        /\ \A v \in DOMAIN units : units'[v] = IF v = u THEN sum ELSE units[v]
    BY Zenon, <1>1, <2>7, <2>8
  <2>10. FlushCharges(kind, FALSE)
    BY Zenon, <1>3, <2>1, <2>2, <2>8, <2>9 DEF FlushCharges
  <2>11. FlushCompletes(FALSE)
    BY Zenon, <1>1, <1>3, <2>7 DEF FlushCompletes
  <2> QED
    BY Zenon, <2>10, <2>11
<1> QED
  BY Zenon, <1>2, <1>3

\* Only drained items have data, and their data are data of the source.
LEMMA DrainedData ==
    ASSUME Shape
    PROVE  DataOf(Selected(lock.records)) \subseteq Data /\ Unselected \subseteq Data /\ DataOf(lock.records) \subseteq Data
<1>1. \A i \in lock.records : i \in Items /\ Datum(i) \in Data
  BY Zenon, ItemFacts DEF Shape, ThreadShape, BufferShape, DataShape, Locks
<1> QED
  BY Zenon, <1>1 DEF DataOf, Selected, Unselected

\* A flush ends in one of five ways; an open breaker is a loss that does not raise.
LEMMA FlushFacts ==
    ASSUME Shape, Control, FlushEnds
    PROVE  \E kind \in {"writes", "letters", "loses", "swallows", "crashes"}, raises \in BOOLEAN : FlushStep(kind, raises)
<1> DEFINE sel == Selected(lock.records)
<1>1. /\ acct \in Accounts /\ sink \in Sinks /\ faults \in Nat /\ IsFiniteSet(lock.records)
      /\ units \in [DOMAIN units -> Counts] /\ buf \in Buffers /\ Cardinality(sel) \in Nat
      /\ sel # {} => Cardinality(sel) > 0
      /\ DataOf(sel) \subseteq Data /\ Unselected \subseteq Data /\ DataOf(lock.records) \subseteq Data
  BY Zenon, DrainedData, CardinalitySelected, SomeSelected DEF Shape, ThreadShape, BufferShape, DataShape
<1>2. NoCounts \in Counts /\ ~(NoCounts.delivered > 0) /\ ~(NoCounts.failed > 0)
      /\ ~(NoCounts.dlqOk > 0) /\ ~(NoCounts.dlqFail > 0)
  BY DEF NoCounts, Counts
<1>3. CASE FlushWritten
  <2>1. PICK c : c = [NoCounts EXCEPT !.delivered = Cardinality(sel)]
    BY Zenon
  <2>2. c \in Counts /\ c.delivered = Cardinality(sel) /\ c.failed = 0 /\ c.dlqOk = 0 /\ c.dlqFail = 0
    BY <1>1, <2>1 DEF NoCounts, Counts
  <2>3. ~(c.failed > 0) /\ ~(c.dlqOk > 0) /\ ~(c.dlqFail > 0)
    BY <2>2
  <2>4. Matches(c, "writes")
    BY Zenon, <1>1, <2>2, <2>3 DEF Matches
  <2>5. Completes(c) /\ lock.by # "none"
    BY Zenon, <1>3, <2>1 DEF FlushWritten
  <2>6. FlushCharges("writes", FALSE) /\ FlushCompletes(FALSE)
    BY Zenon, <2>4, <2>5, CompletesFacts
  <2>7. /\ sink' = [sink EXCEPT !.open = (sel = {} /\ @), !.written = @ \union DataOf(sel),
                            !.filtered = @ \union Unselected]
        /\ lock' = Free /\ Returns(lock.by) /\ UNCHANGED <<acct, faults>> /\ FlushUnchanged
    BY Zenon, <1>3 DEF FlushWritten
  <2>8. /\ sink' \in Sinks /\ sink'.durable = sink.durable /\ sink'.dropped = sink.dropped
        /\ sink'.written = sink.written \union DataOf(sel) /\ sink'.dlq = sink.dlq
        /\ Spared' = Spared \union Unselected
    <3> HIDE DEF sel
    <3> QED
      BY Zenon, <1>1, <2>7 DEF Sinks, Spared
  <2>9. FlushStep("writes", FALSE)
    BY Zenon, <1>1, <2>5, <2>6, <2>7, <2>8 DEF FlushStep
  <2> QED
    BY Zenon, <2>9
<1>4. CASE FlushSkipped
  <2>1. PICK c : c = [NoCounts EXCEPT !.failed = Cardinality(lock.records)]
    BY Zenon
  <2>2. lock.records # {} /\ Cardinality(lock.records) \in Nat /\ Cardinality(lock.records) > 0
    <3>1. lock.records # {}
      BY Zenon, <1>4 DEF FlushSkipped, Selected
    <3>2. Cardinality(lock.records) \in Nat /\ Cardinality(lock.records) # 0
      BY Zenon, <1>1, <3>1, FS_CardinalityType, FS_EmptySet
    <3> QED
      BY <3>1, <3>2
  <2>3. c \in Counts /\ c.failed > 0 /\ c.delivered = 0 /\ c.dlqOk = 0
    BY <2>1, <2>2 DEF NoCounts, Counts
  <2>4. ~(c.delivered > 0) /\ ~(c.dlqOk > 0)
    BY <2>3
  <2>5. Matches(c, "loses")
    BY Zenon, <2>3, <2>4 DEF Matches
  <2>6. /\ Completes(c) /\ lock.by # "none"
        /\ acct' = [acct EXCEPT !.loss = TRUE]
        /\ sink' = [sink EXCEPT !.filtered = @ \union Unselected]
        /\ lock' = Free /\ Returns(lock.by) /\ UNCHANGED faults /\ FlushUnchanged
    BY Zenon, <1>4, <2>1 DEF FlushSkipped
  <2>7. FlushCharges("loses", FALSE) /\ FlushCompletes(FALSE)
    BY Zenon, <2>5, <2>6, CompletesFacts
  <2>8. /\ sink' \in Sinks /\ sink'.durable = sink.durable /\ sink'.dropped = sink.dropped
        /\ sink'.written = sink.written /\ sink'.dlq = sink.dlq
        /\ Spared' = Spared \union Unselected
    BY Zenon, <1>1, <2>6 DEF Sinks, Spared
  <2>9. /\ acct' \in Accounts /\ acct'.pending = acct.pending /\ acct'.gaps = acct.gaps
        /\ acct'.loss = TRUE
    BY Zenon, <1>1, <2>6 DEF Accounts
  <2>10. FlushStep("loses", FALSE)
    BY Zenon, <1>1, <2>6, <2>7, <2>8, <2>9 DEF FlushStep
  <2> QED
    BY Zenon, <2>10
<1>5. ASSUME lock.by # "none", Fault, Raises(lock.by), lock' = Free,
             UNCHANGED <<buf, units, acct, sink>>, FlushUnchanged
      PROVE  FlushStep("crashes", TRUE)
  <2>1. faults' \in Nat
    BY <1>1, <1>5 DEF Fault
  <2>2. FlushCharges("crashes", TRUE) /\ FlushCompletes(TRUE)
    BY Zenon, <1>1, <1>5 DEF FlushCharges, FlushCompletes
  <2>3. Spared' = Spared
    BY Zenon, <1>5 DEF Spared
  <2> QED
    BY Zenon, <1>1, <1>5, <2>1, <2>2, <2>3 DEF FlushStep
<1>7. CASE FlushSwallowed
  <2>1. /\ lock.by # "none" /\ Fault /\ lock' = Free /\ UNCHANGED acct /\ FlushUnchanged
    BY Zenon, <1>7 DEF FlushSwallowed
  <2>2. CASE cfg.onError = "abort" \/ (cfg.onError = "retry" /\ acct.loss)
    <3>1. Raises(lock.by) /\ UNCHANGED <<buf, units, sink>>
      BY Zenon, <1>7, <2>2 DEF FlushSwallowed
    <3> QED
      BY Zenon, <1>5, <2>1, <3>1
  <2>3. CASE ~(cfg.onError = "abort" \/ (cfg.onError = "retry" /\ acct.loss))
    <3>1. /\ Returns(lock.by)
          /\ IF Broker THEN Completes(NoCounts) ELSE UNCHANGED <<buf, units>>
          /\ sink' = [sink EXCEPT !.swallowed = @ \union DataOf(lock.records)]
      BY Zenon, <1>7, <2>3 DEF FlushSwallowed
    <3>2. /\ sink' \in Sinks /\ sink'.durable = sink.durable /\ sink'.dropped = sink.dropped
          /\ sink'.written = sink.written /\ sink'.dlq = sink.dlq
          /\ Spared' = Spared \union DataOf(lock.records)
      BY Zenon, <1>1, <3>1 DEF Sinks, Spared
    <3>3. Matches(NoCounts, "swallows")
      BY Zenon, <1>2 DEF Matches
    <3>4. FlushCharges("swallows", FALSE) /\ FlushCompletes(FALSE)
      <4>1. CASE Broker
        BY Zenon, <2>1, <3>1, <3>3, <4>1, CompletesFacts
      <4>2. CASE ~Broker
        BY Zenon, <1>1, <3>1, <4>2 DEF FlushCharges, FlushCompletes
      <4> QED
        BY Zenon, <4>1, <4>2
    <3>5. faults' \in Nat
      BY <1>1, <2>1 DEF Fault
    <3>6. FlushStep("swallows", FALSE)
      BY Zenon, <1>1, <2>1, <3>1, <3>2, <3>4, <3>5 DEF FlushStep
    <3> QED
      BY Zenon, <3>6
  <2> QED
    BY Zenon, <2>2, <2>3
<1>8. CASE FlushCrashes
  <2>1. /\ lock.by # "none" /\ Fault /\ Raises(lock.by) /\ lock' = Free
        /\ UNCHANGED <<buf, units, acct, sink>> /\ FlushUnchanged
    BY Zenon, <1>8 DEF FlushCrashes
  <2> QED
    BY Zenon, <1>5, <2>1
<1>6. CASE FlushFails
  <2>1. PICK ok \in BOOLEAN :
        LET c == Lost(NoCounts, Cardinality(Selected(lock.records)), ok)
            raises == \/ DLQRaises(ok) \/ cfg.onError = "abort"
                      \/ cfg.onError = "retry" /\ ~(cfg.dlq /\ ok)
        IN  /\ FaultCost(ok)
            /\ acct' = RunLoss(acct, ok)
            /\ sink' = [DLQd(DataOf(Selected(lock.records)), ok) EXCEPT
                            !.open = cfg.breaker, !.filtered = @ \union Unselected]
            /\ IF raises
               THEN /\ Raises(lock.by) /\ UNCHANGED buf
                    /\ LET u == UnitOf(CHOOSE i \in lock.records : TRUE)
                       IN  units' = IF Broker \/ u \notin DOMAIN units THEN units
                                    ELSE [units EXCEPT ![u] = Lost(units[u], Cardinality(Selected(lock.records)), ok)]
               ELSE Completes(c) /\ Returns(lock.by)
    BY Zenon, <1>6 DEF FlushFails
  <2>2. lock.by # "none" /\ sel # {} /\ lock' = Free /\ FlushUnchanged
    BY Zenon, <1>6 DEF FlushFails
  <2>3. PICK kind : kind = IF cfg.dlq /\ ok THEN "letters" ELSE "loses"
    OBVIOUS
  <2>4. PICK c : c = Lost(NoCounts, Cardinality(sel), ok)
    OBVIOUS
  <2>5. /\ c \in Counts /\ c.delivered = NoCounts.delivered
        /\ cfg.dlq /\ ok => c.dlqOk > 0 /\ c.failed = NoCounts.failed /\ c.dlqFail = NoCounts.dlqFail
        /\ ~(cfg.dlq /\ ok) => c.dlqOk = NoCounts.dlqOk /\ (c.failed > 0 \/ c.dlqFail > 0)
    <3>1. PICK k \in Nat : k = Cardinality(sel) /\ k > 0
      BY Zenon, <1>1, <2>2
    <3>2. PICK n \in Counts : n = NoCounts
      BY Zenon, <1>2
    <3>3. c = Lost(n, k, ok)
      BY Zenon, <2>4, <3>1, <3>2
    <3> HIDE DEF sel
    <3>4. CountedLost(n, ok, c)
      <4>1. k > 0 /\ ok \in BOOLEAN
        BY Zenon, <3>1
      <4> QED
        BY Zenon, <4>1, <3>3, CountsLost
    <3> QED
      BY Zenon, <3>2, <3>4 DEF CountedLost
  <2>6. Matches(c, kind)
    BY Zenon, <1>2, <2>3, <2>5 DEF Matches
  <2>7. faults' \in Nat
    BY <1>1, <2>1 DEF FaultCost, Fault
  <2>8. /\ acct' \in Accounts /\ acct'.pending = acct.pending /\ acct'.gaps = acct.gaps
        /\ acct'.loss <=> acct.loss \/ kind = "loses"
    BY Zenon, <1>1, <2>1, <2>3, RunLossFacts
  <2>9. /\ sink' \in Sinks /\ sink'.durable = sink.durable /\ sink'.dropped = sink.dropped
        /\ sink'.written = sink.written
        /\ sink'.dlq = IF kind = "letters" THEN sink.dlq \union DataOf(sel) ELSE sink.dlq
        /\ Spared' = Spared \union Unselected
    <3>1. PICK s : s = DLQd(DataOf(sel), ok)
      OBVIOUS
    <3>2. /\ s \in Sinks /\ s.durable = sink.durable /\ s.dropped = sink.dropped /\ s.written = sink.written
          /\ s.dlq = (IF kind = "letters" THEN sink.dlq \union DataOf(sel) ELSE sink.dlq) /\ s.filtered = sink.filtered /\ s.swallowed = sink.swallowed
      <4> HIDE DEF sel
      <4> QED
        BY Zenon, <1>1, <2>3, <3>1 DEF DLQd, Sinks
    <3>3. sink' = [s EXCEPT !.open = cfg.breaker, !.filtered = @ \union Unselected]
      BY Zenon, <2>1, <3>1
    <3>4. cfg.breaker \in BOOLEAN
      BY Zenon, StreamConstants DEF Shape, ThreadShape, BufferShape, DataShape
    <3> HIDE DEF sel
    <3> QED
      BY Zenon, <1>1, <3>2, <3>3, <3>4 DEF Sinks, Spared
  <2>10. ASSUME Completes(c), Returns(lock.by) PROVE FlushStep(kind, FALSE)
    <3>1. FlushCharges(kind, FALSE) /\ FlushCompletes(FALSE)
      BY Zenon, <2>2, <2>3, <2>6, <2>10, CompletesFacts
    <3> QED
      BY Zenon, <2>2, <2>3, <2>7, <2>8, <2>9, <2>10, <3>1 DEF FlushStep
  <2>11. ASSUME Raises(lock.by), UNCHANGED buf,
                NEW u, u = UnitOf(CHOOSE i \in lock.records : TRUE),
                units' = IF Broker \/ u \notin DOMAIN units THEN units
                         ELSE [units EXCEPT ![u] = Lost(units[u], Cardinality(Selected(lock.records)), ok)]
         PROVE  FlushStep(kind, TRUE)
    <3>1. PICK i \in lock.records : u = UnitOf(i)
      <4>1. lock.records # {}
        BY Zenon, <2>2 DEF Selected
      <4> QED
        BY Zenon, <2>11, <4>1
    <3>2. PICK m : m = Lost(units[u], Cardinality(sel), ok)
      OBVIOUS
    <3>3. u \in DOMAIN units =>
            /\ m \in Counts
            /\ kind = "loses" => m.failed > 0 \/ m.dlqFail > 0
            /\ m.failed > 0 => units[u].failed > 0 \/ kind = "loses"
            /\ m.dlqOk > 0 => units[u].dlqOk > 0 \/ kind = "letters"
      <4> SUFFICES ASSUME u \in DOMAIN units
                   PROVE  /\ m \in Counts
                          /\ kind = "loses" => m.failed > 0 \/ m.dlqFail > 0
                          /\ m.failed > 0 => units[u].failed > 0 \/ kind = "loses"
                          /\ m.dlqOk > 0 => units[u].dlqOk > 0 \/ kind = "letters"
        BY Zenon
      <4>1. PICK k \in Nat : k = Cardinality(sel) /\ k > 0
        BY Zenon, <1>1, <2>2
      <4>2. PICK n \in Counts : n = units[u]
        BY Zenon, <1>1
      <4>3. m = Lost(n, k, ok)
        BY Zenon, <3>2, <4>1, <4>2
      <4> HIDE DEF sel
      <4>4. CountedLost(n, ok, m)
        <5>1. k > 0 /\ ok \in BOOLEAN
          BY Zenon, <4>1
        <5> QED
          BY Zenon, <5>1, <4>3, CountsLost
      <4> QED
        BY Zenon, <2>3, <4>2, <4>4 DEF CountedLost
    <3>4. FlushCharges(kind, TRUE)
      <4>1. CASE Broker \/ u \notin DOMAIN units
        BY Zenon, <1>1, <2>11, <4>1 DEF FlushCharges
      <4>2. CASE ~Broker /\ u \in DOMAIN units
        <5>1. units' = [units EXCEPT ![u] = m]
          BY Zenon, <2>11, <3>2, <4>2
        <5>2. /\ DOMAIN units' = DOMAIN units /\ units' \in [DOMAIN units -> Counts]
              /\ \A v \in DOMAIN units : units'[v] = IF v = u THEN m ELSE units[v]
          BY Zenon, <1>1, <3>3, <4>2, <5>1
        <5> QED
          BY Zenon, <2>3, <3>1, <3>3, <4>2, <5>2 DEF FlushCharges
      <4> QED
        BY Zenon, <4>1, <4>2
    <3>5. FlushCompletes(TRUE)
      BY Zenon, <1>1, <2>11 DEF FlushCompletes
    <3> QED
      BY Zenon, <2>2, <2>3, <2>7, <2>8, <2>9, <2>11, <3>4, <3>5 DEF FlushStep
  <2> QED
    BY Zenon, <2>1, <2>3, <2>4, <2>10, <2>11
<1> QED
  BY Zenon, <1>3, <1>4, <1>6, <1>7, <1>8 DEF FlushEnds

-----------------------------------------------------------------------------
(* The moves of the reader.                                                *)

\* The reader moves without a flush.
LEMMA GotoFacts ==
    ASSUME reader \in Readers, NEW at \in Places, NEW r, r = Goto(at)
    PROVE  r \in Readers /\ r.at = at /\ r.then = reader.then /\ r.unit = reader.unit /\ r.item = reader.item
BY Zenon DEF Readers, Goto

\* The reader flushes and then moves.
LEMMA FlushThenFacts ==
    ASSUME reader \in Readers, NEW then \in Places, NEW r, r = FlushThen(then)
    PROVE  r \in Readers /\ r.at = "flush" /\ r.then = then /\ r.unit = reader.unit /\ r.item = reader.item
BY Zenon DEF Readers, FlushThen, Places

\* The reader raises: it stops the workers, if any, and flushes.
LEMMA RaiseFacts ==
    ASSUME reader \in Readers, NEW r, r = Raise
    PROVE  /\ r \in Readers /\ r.unit = reader.unit /\ r.item = reader.item
           /\ r.at = (IF Threaded THEN "stopWorkers" ELSE "flush") /\ r.then = "failed"
BY Zenon DEF Readers, Raise, FlushThen, Places

\* The reader leaves the loop: over the last file, or to the tail.
LEMMA LeaveFacts ==
    ASSUME reader \in Readers, NEW stopped \in BOOLEAN, NEW r, r = Leave(stopped)
    PROVE  /\ r \in Readers /\ r.unit = reader.unit /\ r.item = reader.item
           /\ \/ r.then = "lastFile" /\ r.at = (IF Threaded THEN "join" ELSE "flush") /\ ~stopped
              \/ r.then = "tail" /\ r.at = IF Threaded THEN "stopWorkers" ELSE "flush"
<1>1. PICK s : s = [reader EXCEPT !.stopped = stopped]
  BY Zenon
<1>2. s \in Readers /\ s.unit = reader.unit /\ s.item = reader.item
  BY Zenon, <1>1 DEF Readers
<1>3. r = IF reader.unit # <<>> /\ ~stopped
          THEN [s EXCEPT !.at = IF Threaded THEN "join" ELSE "flush", !.then = "lastFile"]
          ELSE IF Threaded THEN [s EXCEPT !.at = "stopWorkers", !.then = "tail"]
          ELSE [s EXCEPT !.at = "flush", !.then = "tail"]
  BY Zenon, <1>1 DEF Leave
<1>4. CASE reader.unit # <<>> /\ ~stopped
  BY ZenonT(60), <1>2, <1>3, <1>4 DEF Readers, Places
<1>5. CASE ~(reader.unit # <<>> /\ ~stopped) /\ Threaded
  BY ZenonT(60), <1>2, <1>3, <1>5 DEF Readers, Places
<1>6. CASE ~(reader.unit # <<>> /\ ~stopped) /\ ~Threaded
  BY ZenonT(60), <1>2, <1>3, <1>6 DEF Readers, Places
<1> QED
  BY Zenon, <1>4, <1>5, <1>6

\* The reader moves and nobody takes or finishes an item.
LEMMA SameWorkByReader ==
    ASSUME UNCHANGED <<queue, worker>>, reader.at # "chunk", reader'.at # "chunk"
    PROVE  \A i \in Items : Working(i)' <=> Working(i)
BY Zenon DEF Working

\* What is processed depends on the queue and the threads alone.
LEMMA SameWork ==
    ASSUME UNCHANGED <<queue, worker, reader>>
    PROVE  \A i \in Items : Working(i)' <=> Working(i)
BY Zenon DEF Working

\* A step that moves no data: the source, the units, the sinks and the
\* acknowledgements stay, the buffer stays or is drained into the lock.
Drains ==
    /\ lock.by = "none" /\ buf' = Undrained
    /\ \E t \in Workers \union {"reader", "flusher"} : lock' = Drained(t)

Steady ==
    /\ UNCHANGED <<cfg, src, units, acct, sink, acked, ckpt>>
    /\ \A i \in Items : Working(i)' <=> Working(i)
    /\ UNCHANGED <<buf, lock>> \/ Drains
    /\ reader'.unit = reader.unit
    /\ lost => lost'
    /\ Failing => Failing'

\* The end of the source changes no data.
LEMMA SourceEndsSteady ==
    ASSUME Shape, Control, SourceEnds PROVE Steady
<1>1. /\ reader.at = "next" /\ reader' = Leave(FALSE) /\ reader \in Readers
      /\ UNCHANGED <<cfg, src, queue, worker, lock, buf, units, acct, sink, acked, ckpt, errors,
                   stop, result, lost, faults>>
  BY Zenon DEF SourceEnds, Shape, ThreadShape, BufferShape, DataShape
<1>2. /\ reader'.unit = reader.unit
      /\ reader'.at \in {"join", "flush", "stopWorkers"}
  BY Zenon, <1>1, LeaveFacts
<1>3. reader.then # "failed"
  BY Zenon, <1>1 DEF Control
<1> QED
  BY Zenon, <1>1, <1>2, <1>3, SameWorkByReader DEF Steady, Failing

\* Leaving the loop changes no data.
LEMMA LeaveLoopSteady ==
    ASSUME Shape, Control, LeaveLoop PROVE Steady
<1>1. /\ reader.at = "next" /\ reader' = (IF Threaded /\ errors THEN Raise ELSE Leave(TRUE)) /\ reader \in Readers
      /\ UNCHANGED <<cfg, src, queue, worker, lock, buf, units, acct, sink, acked, ckpt, errors,
                   stop, result, lost, faults>>
  BY Zenon DEF LeaveLoop, Shape, ThreadShape, BufferShape, DataShape, Yields
<1>2. /\ reader'.unit = reader.unit
      /\ reader'.at \in {"join", "flush", "stopWorkers"}
  BY Zenon, <1>1, LeaveFacts, RaiseFacts
<1>3. reader.then # "failed"
  BY Zenon, <1>1 DEF Control
<1> QED
  BY Zenon, <1>1, <1>2, <1>3, SameWorkByReader DEF Steady, Failing

\* The boundary between two files changes no data.
LEMMA NextFileSteady ==
    ASSUME Shape, Control, NextFile PROVE Steady
<1>1. /\ reader.at = "next" /\ reader \in Readers
      /\ reader' = [reader EXCEPT !.at = IF Threaded THEN "join" ELSE "flush", !.then = "file"]
      /\ UNCHANGED <<cfg, src, queue, worker, lock, buf, units, acct, sink, acked, ckpt, errors,
                   stop, result, lost, faults>>
  BY Zenon DEF NextFile, Shape, ThreadShape, BufferShape, DataShape, Yields
<1>2. /\ reader'.unit = reader.unit
      /\ reader'.at \in {"join", "flush", "stopWorkers"}
  BY Zenon, <1>1 DEF Readers
<1>3. reader.then # "failed"
  BY Zenon, <1>1 DEF Control
<1> QED
  BY Zenon, <1>1, <1>2, <1>3, SameWorkByReader DEF Steady, Failing

\* chunk_q.join changes no data.
LEMMA JoinSteady ==
    ASSUME Shape, Control, Join PROVE Steady
<1>1. /\ reader.at = "join" /\ reader \in Readers /\ reader.then \in Places
      /\ reader' = IF errors THEN Raise ELSE FlushThen(reader.then)
      /\ UNCHANGED <<cfg, src, queue, worker, lock, buf, units, acct, sink, acked, ckpt, errors, stop,
                   result, lost, faults>>
  BY Zenon DEF Join, Shape, ThreadShape, BufferShape, DataShape, Readers
<1>2. /\ reader'.unit = reader.unit
      /\ reader'.at \in {"join", "flush", "stopWorkers"}
  BY Zenon, <1>1, RaiseFacts, FlushThenFacts
<1>3. reader.then # "failed"
  BY Zenon, <1>1 DEF Control
<1> QED
  BY Zenon, <1>1, <1>2, <1>3, SameWorkByReader DEF Steady, Failing

\* Stopping the workers changes no data.
LEMMA StopWorkersSteady ==
    ASSUME Shape, Control, StopWorkers PROVE Steady
<1>1. /\ reader.at = "stopWorkers" /\ reader \in Readers /\ reader.then \in Places /\ "failed" \in Places
      /\ reader' = FlushThen(IF errors THEN "failed" ELSE reader.then)
      /\ UNCHANGED <<cfg, src, queue, worker, lock, buf, units, acct, sink, acked, ckpt, errors, stop,
                   result>>
      /\ lost => lost'
  BY Zenon DEF StopWorkers, Shape, ThreadShape, BufferShape, DataShape, Readers, Places
<1>2. reader'.unit = reader.unit /\ reader'.at = "flush" /\ (reader.then = "failed" => reader'.then = "failed")
  BY Zenon, <1>1, FlushThenFacts
<1> QED
  BY Zenon, <1>1, <1>2, SameWorkByReader DEF Steady, Failing

\* The end of the run changes no data.
LEMMA EndRunSteady ==
    ASSUME Shape, Control, EndRun PROVE Steady
<1>1. /\ reader.at \in {"close", "failed"} /\ reader \in Readers /\ "ended" \in Places
      /\ reader' = Goto("ended")
      /\ UNCHANGED <<cfg, src, queue, worker, lock, buf, units, acct, sink, acked, ckpt, errors, stop,
                   lost, faults>>
  BY Zenon DEF EndRun, Shape, ThreadShape, BufferShape, DataShape, Places
<1>2. reader'.unit = reader.unit /\ reader'.at = "ended" /\ reader'.then = reader.then
  BY Zenon, <1>1, GotoFacts
<1> QED
  BY Zenon, <1>1, <1>2, SameWorkByReader DEF Steady, Failing

\* A stop request changes no data.
LEMMA RequestStopSteady == ASSUME Shape, RequestStop PROVE Steady
BY Zenon, SameWork DEF RequestStop, Steady, Failing

\* The flusher takes the buffer and loses nothing of it.
LEMMA FlusherWakesSteady == ASSUME Shape, FlusherWakes PROVE Steady
BY Zenon, SameWork DEF FlusherWakes, Begin, Steady, Drains, Failing

\* A worker's get moves an item from the queue to the worker.
LEMMA WorkerTakesSteady ==
    ASSUME Shape, NEW w \in Workers, WorkerTakes(w) PROVE Steady
<1>1. /\ queue # <<>> /\ worker[w] = Idle /\ queue \in Seq(Items) /\ worker \in [Workers -> Threads]
      /\ worker' = [worker EXCEPT ![w] = [item |-> Head(queue), at |-> "chunk"]]
      /\ queue' = Tail(queue)
      /\ UNCHANGED <<cfg, src, reader, lock, buf, units, acct, sink, acked, ckpt, errors, stop,
                   result, lost, faults>>
  BY Zenon DEF WorkerTakes, Shape, ThreadShape, BufferShape, DataShape
<1>2. \A j : Among(queue, j) <=> (j = Head(queue) \/ Among(queue', j))
  BY Zenon, <1>1, TailQueue
<1>3. /\ worker'[w].at = "chunk" /\ worker'[w].item = Head(queue) /\ worker[w].at # "chunk"
      /\ \A v \in Workers : v # w => worker'[v] = worker[v]
  BY <1>1 DEF Idle, Threads
<1>4. \A i \in Items : Working(i)' <=> Working(i)
  BY Zenon, <1>1, <1>2, <1>3 DEF Working
<1> QED
  BY Zenon, <1>1, <1>4 DEF Steady, Failing

\* The reader takes the buffer and loses nothing of it.
LEMMA ReaderFlushSteady ==
    ASSUME Shape, Control, ReaderFlush PROVE Steady
<1>1. /\ reader.at = "flush" /\ lock.by = "none" /\ reader \in Readers
      /\ UNCHANGED <<cfg, src, queue, worker, units, acct, sink, acked, ckpt, errors, stop, result,
                   lost, faults>>
      /\ \/ Begin("reader") /\ reader' = Goto("flushing")
         \/ UNCHANGED <<lock, buf>> /\ reader' = Goto(reader.then)
  BY Zenon DEF ReaderFlush, Shape, ThreadShape, BufferShape, DataShape
<1>2. reader.then \in Places /\ "flushing" \in Places /\ reader.then # "chunk"
  BY Zenon, <1>1 DEF Control, Readers, Places
<1>3. reader'.unit = reader.unit /\ reader'.at # "chunk" /\ reader'.then = reader.then
  BY Zenon, <1>1, <1>2, GotoFacts
<1> QED
  BY Zenon, <1>1, <1>3, SameWorkByReader DEF Steady, Drains, Failing, Begin

\* A worker takes the buffer and loses nothing of it.
LEMMA WorkerFlushSteady ==
    ASSUME Shape, NEW w \in Workers, WorkerFlush(w) PROVE Steady
<1>1. /\ worker[w].at = "flush" /\ lock.by = "none" /\ worker \in [Workers -> Threads]
      /\ UNCHANGED <<cfg, src, reader, queue, units, acct, sink, acked, ckpt, errors, stop, result,
                   lost, faults>>
      /\ \/ Begin(w) /\ worker' = [worker EXCEPT ![w].at = "flushing"]
         \/ UNCHANGED <<lock, buf>> /\ worker' = [worker EXCEPT ![w] = Idle]
  BY Zenon DEF WorkerFlush, Shape, ThreadShape, BufferShape, DataShape
<1>2. worker'[w].at # "chunk" /\ \A v \in Workers : v # w => worker'[v] = worker[v]
  BY <1>1 DEF Idle, Threads
<1>3. \A i \in Items : Working(i)' <=> Working(i)
  BY Zenon, <1>1, <1>2 DEF Working
<1> QED
  BY Zenon, <1>1, <1>3 DEF Steady, Drains, Failing, Begin

\* The reader has nothing to decide yet.
LEMMA NothingDecidedSteady ==
    ASSUME Shape, Control, reader.at \in {"decide", "tail"}, reader' = Goto(After),
           UNCHANGED <<buf, units, acct, sink, acked, ckpt, faults>>,
           UNCHANGED <<cfg, src, queue, worker, lock, errors, stop, result, lost>>
    PROVE  Steady
<1>1. PICK a \in Places : reader' = Goto(a) /\ a # "chunk" /\ reader \in Readers
  BY Zenon DEF Shape, ThreadShape, BufferShape, DataShape, After, Places
<1>2. PICK r : r = reader' /\ r = Goto(a)
  BY Zenon, <1>1
<1>3. r \in Readers /\ r.at = a /\ r.then = reader.then /\ r.unit = reader.unit /\ r.item = reader.item
  BY Zenon, <1>1, <1>2, GotoFacts
<1> QED
  BY Zenon, <1>1, <1>2, <1>3, SameWorkByReader DEF Steady, Failing

-----------------------------------------------------------------------------
(* Types and control.                                                      *)

\* A step that changes no data keeps the types, given those of the threads.
LEMMA SteadyShape == ASSUME Shape, Steady, ThreadShape' PROVE Shape'
<1>1. DataShape'
  BY Zenon DEF Shape, DataShape, Steady, Broker
<1>2. CASE UNCHANGED <<buf, lock>>
  <2>1. BufferShape'
    BY Zenon, <1>2 DEF Shape, BufferShape, Steady, Broker
  <2> QED
    BY Zenon, <1>1, <2>1 DEF Shape
<1>3. CASE Drains
  <2>1. PICK t \in Workers \union {"reader", "flusher"} : lock' = Drained(t)
    BY Zenon, <1>3 DEF Drains
  <2>2. /\ buf' \in Buffers /\ buf'.records = {} /\ buf'.contributors = {} /\ buf'.completed = buf.completed
        /\ lock' \in Locks /\ lock'.records = buf.records /\ lock'.contributors = buf.contributors
    BY Zenon, <1>3, <2>1 DEF Shape, BufferShape, Buffers, Locks, Drains, Undrained, Drained
  <2>3. BufferShape'
    BY Zenon, <2>2, FS_EmptySet DEF Shape, BufferShape, Steady, Broker
  <2> QED
    BY Zenon, <1>1, <2>3 DEF Shape
<1> QED
  BY Zenon, <1>2, <1>3 DEF Steady

\* The reader moves by itself: what the new place asks for.
MovesTo(r) ==
    /\ r \in Readers /\ r.at \notin {"chunk", "flushing"}
    /\ r.at \in {"decide", "file", "lastFile"} \/ (r.at = "flush" /\ r.then \in {"decide", "file", "lastFile"}) =>
          AllIdle
    /\ r.at \in {"tail", "close"} \/ (r.at = "flush" /\ r.then \in {"tail", "close"}) => AllIdle \/ lost'
    /\ r.at \in {"file", "lastFile"} => lock = Free /\ ~Buffered /\ r.then # "failed"
    /\ r.at \in {"tail", "close"} => lost' \/ (lock = Free /\ ~Buffered)
    /\ r.then = "failed" => r.at \in {"stopWorkers", "flush", "failed", "ended"}
    /\ r.at = "flush" => r.then \in {"next", "decide", "tail", "file", "lastFile", "failed"}
    /\ r.at = "join" => r.then \in {"decide", "file", "lastFile"}
    /\ r.at = "stopWorkers" => r.then \in {"tail", "failed"}
    /\ result' = "success" => r.at = "ended"

\* A move of the reader alone keeps Control when its new place allows it.
LEMMA ReaderMoves ==
    ASSUME Shape, Control, reader.at \notin {"flushing"}, MovesTo(reader'),
           UNCHANGED <<cfg, queue, worker, lock, errors>>, Buffered' <=> Buffered,
           lost => lost', lost' \in BOOLEAN, faults' \in Nat,
           result' \in {"running", "failed", "partial", "success"}
    PROVE  ThreadShape' /\ Control'
<1>1. ThreadShape'
  BY Zenon DEF MovesTo, Shape, ThreadShape
<1>2. /\ AllIdle' <=> AllIdle
      /\ Threaded' <=> Threaded
      /\ Broker' <=> Broker
  BY Zenon DEF AllIdle, Threaded, Broker
<1>3. /\ Towards({"decide", "file", "lastFile"})' => AllIdle
      /\ Towards({"tail", "close"})' => AllIdle \/ lost'
  BY Zenon DEF MovesTo, Towards
<1>4. /\ ~Threaded' => AllIdle'
      /\ reader'.at = "chunk" => ~Threaded'
      /\ reader'.at = "flushing" <=> lock'.by = "reader"
      /\ \A w \in Workers : worker'[w].at = "flushing" <=> lock'.by = w
      /\ lock'.by = "none" => lock' = Free
      /\ lock'.by # "none" /\ ~Broker' => lock'.records # {}
  BY Zenon, <1>2 DEF MovesTo, Control
<1>5. /\ reader'.at \in {"file", "lastFile"} => lock' = Free /\ ~Buffered'
      /\ reader'.at \in {"tail", "close"} /\ ~lost' => lock' = Free /\ ~Buffered'
      /\ reader'.at # "flushing"
      /\ reader'.then = "failed" => reader'.at \in {"stopWorkers", "flush", "flushing", "failed", "ended"}
      /\ reader'.at \in {"flush", "flushing"} =>
          reader'.then \in {"next", "decide", "tail", "file", "lastFile", "failed"}
      /\ reader'.at = "join" => reader'.then \in {"decide", "file", "lastFile"}
      /\ reader'.at = "stopWorkers" => reader'.then \in {"tail", "failed"}
      /\ reader'.at \in {"file", "lastFile"} => reader'.then # "failed"
      /\ result' = "success" => reader'.at = "ended"
  BY Zenon DEF MovesTo, Control
<1> QED
  BY Zenon, <1>1, <1>2, <1>3, <1>4, <1>5 DEF Control

\* Nothing that control depends on changes.
LEMMA SameControl ==
    ASSUME Shape, Control, UNCHANGED <<cfg, reader, queue, worker, lock, errors, lost, result>>,
           Buffered' <=> Buffered, faults' \in Nat
    PROVE  ThreadShape' /\ Control'
<1>1. ThreadShape'
  BY Zenon DEF Shape, ThreadShape
<1>2. /\ AllIdle' <=> AllIdle
      /\ Threaded' <=> Threaded
      /\ Broker' <=> Broker
      /\ Towards({"decide", "file", "lastFile"})' <=> Towards({"decide", "file", "lastFile"})
      /\ Towards({"tail", "close"})' <=> Towards({"tail", "close"})
  BY Zenon DEF AllIdle, Threaded, Broker, Towards
<1> QED
  BY ZenonT(60), <1>1, <1>2 DEF Control

\* The end of the source keeps the types and Control.
LEMMA SourceEndsControl == ASSUME Shape, Control, SourceEnds PROVE ThreadShape' /\ Control'
<1>1. /\ reader.at = "next" /\ reader' = Leave(FALSE) /\ reader \in Readers
      /\ UNCHANGED <<cfg, src, queue, worker, lock, buf, units, acct, sink, acked, ckpt, errors,
                   stop, result, lost, faults>>
      /\ lost \in BOOLEAN /\ faults \in Nat /\ result \in {"running", "failed", "partial", "success"}
      /\ ~Threaded => AllIdle
      /\ result # "success"
  BY Zenon DEF SourceEnds, Shape, ThreadShape, Control
<1>2. /\ reader' \in Readers
      /\ \/ reader'.then = "lastFile" /\ reader'.at = (IF Threaded THEN "join" ELSE "flush")
         \/ reader'.then = "tail" /\ reader'.at = IF Threaded THEN "stopWorkers" ELSE "flush"
  BY Zenon, <1>1, LeaveFacts
<1>3. MovesTo(reader')
  BY Zenon, <1>1, <1>2 DEF MovesTo
<1> QED
  BY Zenon, <1>1, <1>3, ReaderMoves DEF Buffered

\* Leaving the loop keeps the types and Control.
LEMMA LeaveLoopControl == ASSUME Shape, Control, LeaveLoop PROVE ThreadShape' /\ Control'
<1>1. /\ reader.at = "next" /\ reader' = (IF Threaded /\ errors THEN Raise ELSE Leave(TRUE)) /\ reader \in Readers
      /\ UNCHANGED <<cfg, src, queue, worker, lock, buf, units, acct, sink, acked, ckpt, errors,
                   stop, result, lost, faults>>
      /\ lost \in BOOLEAN /\ faults \in Nat /\ result \in {"running", "failed", "partial", "success"}
      /\ ~Threaded => AllIdle
      /\ result # "success"
  BY Zenon DEF LeaveLoop, Yields, Shape, ThreadShape, Control
<1>2. /\ reader' \in Readers
      /\ \/ reader'.then = "failed" /\ reader'.at = (IF Threaded THEN "stopWorkers" ELSE "flush")
         \/ reader'.then = "tail" /\ reader'.at = IF Threaded THEN "stopWorkers" ELSE "flush"
  BY Zenon, <1>1, LeaveFacts, RaiseFacts
<1>3. MovesTo(reader')
  BY Zenon, <1>1, <1>2 DEF MovesTo
<1> QED
  BY Zenon, <1>1, <1>3, ReaderMoves DEF Buffered

\* The boundary between two files keeps the types and Control.
LEMMA NextFileControl == ASSUME Shape, Control, NextFile PROVE ThreadShape' /\ Control'
<1>1. /\ reader.at = "next" /\ reader \in Readers
      /\ UNCHANGED <<cfg, src, queue, worker, lock, buf, units, acct, sink, acked, ckpt, errors,
                   stop, result, lost, faults>>
      /\ lost \in BOOLEAN /\ faults \in Nat /\ result \in {"running", "failed", "partial", "success"}
      /\ ~Threaded => AllIdle
      /\ result # "success"
  BY Zenon DEF NextFile, Yields, Shape, ThreadShape, Control
<1>2. reader' \in Readers /\ reader'.then = "file" /\ reader'.at = IF Threaded THEN "join" ELSE "flush"
  <2>1. reader' = [reader EXCEPT !.at = IF Threaded THEN "join" ELSE "flush", !.then = "file"]
    BY Zenon DEF NextFile
  <2> QED
    BY Zenon, <1>1, <2>1 DEF Readers, Places
<1>3. MovesTo(reader')
  BY Zenon, <1>1, <1>2 DEF MovesTo
<1> QED
  BY Zenon, <1>1, <1>3, ReaderMoves DEF Buffered

\* chunk_q.join keeps the types and Control.
LEMMA JoinControl == ASSUME Shape, Control, Join PROVE ThreadShape' /\ Control'
<1>1. /\ reader.at = "join" /\ reader \in Readers /\ reader.then \in Places
      /\ reader' = IF errors THEN Raise ELSE FlushThen(reader.then)
      /\ UNCHANGED <<cfg, src, queue, worker, lock, buf, units, acct, sink, acked, ckpt, errors, stop,
                   result, lost, faults>>
      /\ lost \in BOOLEAN /\ faults \in Nat /\ result \in {"running", "failed", "partial", "success"}
      /\ ~errors => AllIdle
      /\ reader.then \in {"decide", "file", "lastFile"}
      /\ result # "success"
  BY Zenon DEF Join, Shape, ThreadShape, Readers, Control, AllIdle
<1>2. /\ reader' \in Readers
      /\ \/ reader'.then = "failed" /\ reader'.at = (IF Threaded THEN "stopWorkers" ELSE "flush")
         \/ reader'.then = reader.then /\ reader'.at = "flush" /\ ~errors
  BY Zenon, <1>1, FlushThenFacts, RaiseFacts
<1>3. MovesTo(reader')
  <2>1. CASE reader'.then = "failed" /\ reader'.at = (IF Threaded THEN "stopWorkers" ELSE "flush")
    BY Zenon, <1>1, <1>2, <2>1 DEF MovesTo
  <2>2. CASE reader'.then = reader.then /\ reader'.at = "flush" /\ ~errors
    BY Zenon, <1>1, <1>2, <2>2 DEF MovesTo
  <2> QED
    BY Zenon, <1>2, <2>1, <2>2
<1> QED
  BY Zenon, <1>1, <1>3, ReaderMoves DEF Buffered

\* Stopping the workers keeps the types and Control.
LEMMA StopWorkersControl == ASSUME Shape, Control, StopWorkers PROVE ThreadShape' /\ Control'
<1>1. /\ reader.at = "stopWorkers" /\ reader \in Readers /\ reader.then \in Places /\ "failed" \in Places
      /\ reader' = FlushThen(IF errors THEN "failed" ELSE reader.then)
      /\ UNCHANGED <<cfg, src, queue, worker, lock, buf, units, acct, sink, acked, ckpt, errors, stop,
                   result>>
      /\ lost => lost'
      /\ lost' \in BOOLEAN /\ result \in {"running", "failed", "partial", "success"}
      /\ ~errors => AllIdle \/ lost'
      /\ reader.then \in {"tail", "failed"}
      /\ result # "success"
  BY Zenon DEF StopWorkers, Shape, ThreadShape, Readers, Places, Control, AllIdle
<1>2. faults' \in Nat
  BY DEF StopWorkers, Fault, Shape, ThreadShape
<1>3. /\ reader' \in Readers /\ reader'.at = "flush"
      /\ \/ reader'.then = "failed"
         \/ reader'.then = "tail" /\ ~errors
  BY Zenon, <1>1, FlushThenFacts
<1>4. MovesTo(reader')
  BY Zenon, <1>1, <1>3 DEF MovesTo
<1> QED
  BY Zenon, <1>1, <1>2, <1>4, ReaderMoves DEF Buffered

\* The end of the run keeps the types and Control.
LEMMA EndRunControl == ASSUME Shape, Control, EndRun PROVE ThreadShape' /\ Control'
<1>1. /\ reader.at \in {"close", "failed"} /\ reader \in Readers /\ "ended" \in Places
      /\ reader' = Goto("ended")
      /\ UNCHANGED <<cfg, src, queue, worker, lock, buf, units, acct, sink, acked, ckpt, errors, stop,
                   lost, faults>>
      /\ lost \in BOOLEAN /\ faults \in Nat
      /\ result' \in {"running", "failed", "partial", "success"}
  BY Zenon DEF EndRun, Outcomes, Shape, ThreadShape, Places
<1>2. reader' \in Readers /\ reader'.at = "ended"
  BY Zenon, <1>1, GotoFacts
<1>3. MovesTo(reader')
  BY Zenon, <1>1, <1>2 DEF MovesTo
<1> QED
  BY Zenon, <1>1, <1>3, ReaderMoves DEF Buffered

\* An idle worker has its type.
LEMMA IdleThread == Idle.at = "idle" /\ Idle \in Threads
BY DEF Idle, Threads

\* A stop request keeps the types and Control.
LEMMA RequestStopControl == ASSUME Shape, Control, RequestStop PROVE ThreadShape' /\ Control'
<1>1. /\ UNCHANGED <<cfg, reader, queue, worker, lock, errors, lost, result>>
      /\ Buffered' <=> Buffered
      /\ faults' \in Nat
  BY Zenon DEF RequestStop, Buffered, Shape, ThreadShape
<1> QED
  BY Zenon, <1>1, SameControl

\* A poll keeps the types and Control.
LEMMA PollControl == ASSUME Shape, Control, NEW ns, Poll(ns) PROVE ThreadShape' /\ Control'
<1>1. /\ UNCHANGED <<cfg, reader, queue, worker, lock, errors, lost, result>>
      /\ Buffered' <=> Buffered
      /\ faults' \in Nat
  BY Zenon DEF Poll, Buffered, Shape, ThreadShape
<1> QED
  BY Zenon, <1>1, SameControl

\* A rewind keeps the types and Control.
LEMMA RewindControl == ASSUME Shape, Control, Rewind PROVE ThreadShape' /\ Control'
<1>1. /\ UNCHANGED <<cfg, reader, queue, worker, lock, errors, lost, result>>
      /\ Buffered' <=> Buffered
      /\ faults' \in Nat
  BY Zenon DEF Rewind, Buffered, Shape, ThreadShape
<1> QED
  BY Zenon, <1>1, SameControl

\* A busy worker keeps the reader from settling.
LEMMA BusyWorker ==
    ASSUME Control, NEW w \in Workers, worker[w] # Idle
    PROVE  /\ ~AllIdle /\ Threaded /\ reader.at # "chunk"
           /\ ~Towards({"decide", "file", "lastFile"})
           /\ Towards({"tail", "close"}) => lost
           /\ reader.at \notin {"file", "lastFile"}
           /\ reader.at \in {"tail", "close"} => lost
           /\ reader.at = "flushing" => reader.then \notin {"file", "lastFile"}
           /\ reader.at = "flushing" /\ reader.then = "tail" => lost
BY Zenon DEF Control, AllIdle, Towards

\* The flusher's wake-up keeps the types and Control.
LEMMA FlusherWakesControl == ASSUME Shape, Control, FlusherWakes PROVE ThreadShape' /\ Control'
<1>1. /\ Buffered /\ lock.by = "none" /\ lock' = Drained("flusher") /\ buf' = Undrained
      /\ UNCHANGED <<cfg, src, reader, queue, worker, units, acct, sink, acked, ckpt, errors, stop,
                   result, lost, faults>>
  BY Zenon DEF FlusherWakes, Begin
<1>2. ThreadShape'
  BY Zenon, <1>1 DEF Shape, ThreadShape
<1>3. /\ ~Buffered' /\ lock'.by = "flusher" /\ lock'.records = buf.records
      /\ \A w \in Workers : w # "flusher"
  BY Zenon, <1>1, StreamConstants DEF Buffered, Drained, Undrained, Shape, BufferShape, Buffers
<1>4. ~Broker => buf.records # {}
  BY Zenon, <1>1 DEF Buffered, Shape, BufferShape
<1>5. /\ reader.at # "flushing" /\ \A w \in Workers : worker[w].at # "flushing"
      /\ reader.at \notin {"file", "lastFile"}
      /\ reader.at \in {"tail", "close"} => lost
  BY Zenon, <1>1, StreamConstants DEF Control
<1>6. /\ AllIdle' <=> AllIdle
      /\ Threaded' <=> Threaded
      /\ Broker' <=> Broker
      /\ Towards({"decide", "file", "lastFile"})' <=> Towards({"decide", "file", "lastFile"})
      /\ Towards({"tail", "close"})' <=> Towards({"tail", "close"})
  BY Zenon, <1>1 DEF AllIdle, Threaded, Broker, Towards
<1>7. Control'
  BY Zenon, <1>1, <1>3, <1>4, <1>5, <1>6 DEF Control
<1> QED
  BY Zenon, <1>2, <1>7

\* A worker's get keeps the types and Control.
LEMMA WorkerTakesControl ==
    ASSUME Shape, Control, NEW w \in Workers, WorkerTakes(w) PROVE ThreadShape' /\ Control'
<1>1. /\ queue # <<>> /\ worker[w] = Idle /\ queue \in Seq(Items) /\ worker \in [Workers -> Threads]
      /\ worker' = [worker EXCEPT ![w] = [item |-> Head(queue), at |-> "chunk"]]
      /\ queue' = Tail(queue) /\ Len(queue) <= 2 * Cardinality(Workers)
  BY Zenon DEF WorkerTakes, Shape, ThreadShape
<1>2. UNCHANGED <<cfg, src, reader, lock, buf, units, acct, sink, acked, ckpt, errors, stop,
                   result, lost, faults>>
  BY Zenon DEF WorkerTakes
<1>3. Head(queue) \in Items /\ queue' \in Seq(Items) /\ Len(queue') = Len(queue) - 1
  BY Zenon, <1>1, TailQueue
<1>4. Len(queue') <= 2 * Cardinality(Workers)
  BY <1>1, <1>3, StreamConstants, FS_CardinalityType
<1>5. /\ worker' \in [Workers -> Threads] /\ worker'[w].at = "chunk" /\ worker'[w].item = Head(queue)
      /\ \A v \in Workers : v # w => worker'[v] = worker[v]
  BY <1>1, <1>3 DEF Threads
<1>6. ThreadShape'
  BY Zenon, <1>2, <1>3, <1>4, <1>5 DEF Shape, ThreadShape
<1>7. /\ ~AllIdle /\ ~AllIdle' /\ Threaded
      /\ lock.by # w /\ worker'[w].at # "flushing"
  <2>1. worker[w].at = "idle" /\ worker'[w] # Idle
    BY Zenon, <1>1, <1>5, IdleThread
  <2>2. ~AllIdle /\ ~AllIdle' /\ worker'[w].at # "flushing"
    BY Zenon, <1>1, <1>5, <2>1 DEF AllIdle
  <2> QED
    BY Zenon, <2>1, <2>2 DEF Control
<1>8. /\ Threaded' <=> Threaded
      /\ Broker' <=> Broker
      /\ Buffered' <=> Buffered
      /\ Towards({"decide", "file", "lastFile"})' <=> Towards({"decide", "file", "lastFile"})
      /\ Towards({"tail", "close"})' <=> Towards({"tail", "close"})
  BY Zenon, <1>2 DEF Threaded, Broker, Towards, Buffered
<1>9. Control'
  BY Zenon, <1>2, <1>5, <1>7, <1>8 DEF Control
<1> QED
  BY Zenon, <1>6, <1>9

\* The start of the reader's flush keeps the types and Control.
LEMMA ReaderFlushControl == ASSUME Shape, Control, ReaderFlush PROVE ThreadShape' /\ Control'
<1>1. /\ reader.at = "flush" /\ lock.by = "none" /\ reader \in Readers
      /\ UNCHANGED <<cfg, src, queue, worker, units, acct, sink, acked, ckpt, errors, stop, result,
                   lost, faults>>
  BY Zenon DEF ReaderFlush, Shape, ThreadShape
<1>2. /\ reader.then \in Places /\ "flushing" \in Places
      /\ reader.then \in {"next", "decide", "tail", "file", "lastFile", "failed"}
      /\ lock = Free /\ result # "success"
      /\ reader.then \in {"decide", "file", "lastFile"} => AllIdle
      /\ reader.then \in {"tail", "close"} => AllIdle \/ lost
  BY Zenon, <1>1 DEF Control, Readers, Places, Towards
<1>3. CASE Buffered
  <2>1. lock' = Drained("reader") /\ buf' = Undrained /\ reader' = Goto("flushing")
    BY Zenon, <1>3 DEF ReaderFlush, Begin
  <2>2. /\ reader' \in Readers /\ reader'.at = "flushing" /\ reader'.then = reader.then
        /\ reader'.unit = reader.unit /\ reader'.item = reader.item
    BY Zenon, <1>1, <1>2, <2>1, GotoFacts
  <2>3. ThreadShape'
    BY Zenon, <1>1, <2>2 DEF Shape, ThreadShape
  <2>4. /\ ~Buffered' /\ lock'.by = "reader" /\ lock'.records = buf.records
        /\ \A w \in Workers : w # "reader" /\ w # "none"
    BY Zenon, <2>1, StreamConstants DEF Buffered, Drained, Undrained, Shape, BufferShape, Buffers
  <2>5. ~Broker => buf.records # {}
    BY Zenon, <1>3 DEF Buffered, Shape, BufferShape
  <2>6. /\ AllIdle' <=> AllIdle
        /\ Threaded' <=> Threaded
        /\ Broker' <=> Broker
        /\ Towards({"decide", "file", "lastFile"})' => AllIdle
        /\ Towards({"tail", "close"})' => AllIdle \/ lost
    BY Zenon, <1>1, <1>2, <2>2 DEF AllIdle, Threaded, Broker, Towards
  <2>7. Control'
    BY Zenon, <1>1, <1>2, <2>2, <2>4, <2>5, <2>6 DEF Control
  <2> QED
    BY Zenon, <2>3, <2>7
<1>4. CASE ~Buffered
  <2>1. UNCHANGED <<lock, buf>> /\ reader' = Goto(reader.then)
    BY Zenon, <1>4 DEF ReaderFlush
  <2>2. /\ reader' \in Readers /\ reader'.at = reader.then /\ reader'.then = reader.then
        /\ reader'.unit = reader.unit /\ reader'.item = reader.item
    BY Zenon, <1>1, <1>2, <2>1, GotoFacts
  <2>3. MovesTo(reader')
    BY Zenon, <1>1, <1>2, <1>4, <2>2 DEF MovesTo
  <2>4. /\ UNCHANGED <<cfg, queue, worker, lock, errors>> /\ (Buffered' <=> Buffered)
        /\ lost => lost'
        /\ lost' \in BOOLEAN /\ faults' \in Nat
        /\ result' \in {"running", "failed", "partial", "success"}
    BY Zenon, <1>1, <2>1 DEF Buffered, Shape, ThreadShape
  <2> QED
    BY Zenon, <1>1, <2>3, <2>4, ReaderMoves
<1> QED
  BY Zenon, <1>3, <1>4

\* The start of a worker's flush keeps the types and Control.
LEMMA WorkerFlushControl ==
    ASSUME Shape, Control, NEW w \in Workers, WorkerFlush(w) PROVE ThreadShape' /\ Control'
<1>1. /\ worker[w].at = "flush" /\ lock.by = "none" /\ worker \in [Workers -> Threads]
      /\ worker[w] # Idle /\ worker[w] \in Threads
  BY Zenon, IdleThread DEF WorkerFlush, Shape, ThreadShape
<1>2. UNCHANGED <<cfg, src, reader, queue, units, acct, sink, acked, ckpt, errors, stop, result,
                   lost, faults>>
  BY Zenon DEF WorkerFlush
<1>3. /\ ~AllIdle /\ Threaded /\ reader.at # "chunk"
      /\ ~Towards({"decide", "file", "lastFile"})
      /\ Towards({"tail", "close"}) => lost
      /\ reader.at \notin {"file", "lastFile"}
      /\ reader.at \in {"tail", "close"} => lost
  BY Zenon, <1>1, BusyWorker
<1>4. /\ Threaded' <=> Threaded
      /\ Broker' <=> Broker
      /\ Towards({"decide", "file", "lastFile"})' <=> Towards({"decide", "file", "lastFile"})
      /\ Towards({"tail", "close"})' <=> Towards({"tail", "close"})
  BY Zenon, <1>2 DEF Threaded, Broker, Towards
<1>5. /\ reader.at # "flushing" /\ w # "reader" /\ w # "none"
      /\ \A v \in Workers : worker[v].at # "flushing"
  BY Zenon, <1>1, StreamConstants DEF Control
<1>6. CASE Buffered
  <2>1. lock' = Drained(w) /\ buf' = Undrained /\ worker' = [worker EXCEPT ![w].at = "flushing"]
    BY Zenon, <1>6 DEF WorkerFlush, Begin
  <2>2. /\ worker' \in [Workers -> Threads] /\ worker'[w].at = "flushing"
        /\ \A v \in Workers : v # w => worker'[v] = worker[v]
    BY <1>1, <2>1 DEF Threads
  <2>3. ThreadShape'
    BY Zenon, <1>2, <2>2 DEF Shape, ThreadShape
  <2>4. ~Buffered' /\ lock'.by = w /\ lock'.records = buf.records
    BY Zenon, <2>1 DEF Buffered, Drained, Undrained, Shape, BufferShape, Buffers
  <2>5. ~Broker => buf.records # {}
    BY Zenon, <1>6 DEF Buffered, Shape, BufferShape
  <2>6. Control'
    BY Zenon, <1>2, <1>3, <1>4, <1>5, <2>2, <2>4, <2>5 DEF Control
  <2> QED
    BY Zenon, <2>3, <2>6
<1>7. CASE ~Buffered
  <2>1. UNCHANGED <<lock, buf>> /\ worker' = [worker EXCEPT ![w] = Idle]
    BY Zenon, <1>7 DEF WorkerFlush
  <2>2. /\ worker' \in [Workers -> Threads] /\ worker'[w] = Idle /\ Idle.at = "idle"
        /\ \A v \in Workers : v # w => worker'[v] = worker[v]
    BY <1>1, <2>1 DEF Threads, Idle
  <2>3. ThreadShape'
    BY Zenon, <1>2, <2>2 DEF Shape, ThreadShape
  <2>4. Buffered' <=> Buffered
    BY Zenon, <2>1 DEF Buffered
  <2>5. Control'
    BY Zenon, <1>1, <1>2, <1>3, <1>4, <1>5, <2>1, <2>2, <2>4 DEF Control
  <2> QED
    BY Zenon, <2>3, <2>5
<1> QED
  BY Zenon, <1>6, <1>7

\* The reader goes on after a decision.
LEMMA DecidedMoves ==
    ASSUME Shape, Control, reader.at \in {"decide", "tail"}, reader' = Goto(After), lost' = lost, result' = result
    PROVE  MovesTo(reader')
<1>1. PICK a : a = After
  OBVIOUS
<1>2. a \in Places /\ (a = "next" \/ (a = "close" /\ reader.at = "tail")) /\ reader \in Readers
  BY Zenon, <1>1 DEF After, Places, Shape, ThreadShape
<1>3. /\ reader' \in Readers /\ reader'.at = a /\ reader'.then = reader.then
      /\ reader'.unit = reader.unit /\ reader'.item = reader.item
  <2>1. PICK r : r = reader'
    OBVIOUS
  <2>2. r = Goto(a)
    BY Zenon, <1>1, <2>1
  <2>3. /\ r \in Readers /\ r.at = a /\ r.then = reader.then
        /\ r.unit = reader.unit /\ r.item = reader.item
    BY Zenon, <1>2, <2>2, GotoFacts
  <2> QED
    BY Zenon, <2>1, <2>3
<1>4. /\ reader.then # "failed" /\ result # "success"
      /\ reader.at = "tail" => lost \/ (AllIdle /\ lock = Free /\ ~Buffered)
  BY Zenon DEF Control, Towards
<1> QED
  BY Zenon, <1>2, <1>3, <1>4 DEF MovesTo

\* The reader leaves for the failure path.
LEMMA RaisedMoves ==
    ASSUME Shape, Control, reader.at # "ended", result' = result,
           reader' = Raise \/ reader' = FlushThen("failed")
    PROVE  MovesTo(reader')
<1>1. /\ reader' \in Readers /\ reader'.then = "failed"
      /\ reader'.at = "flush" \/ reader'.at = "stopWorkers"
  <2>1. reader \in Readers /\ "failed" \in Places
    BY Zenon DEF Shape, ThreadShape, Places
  <2>2. CASE reader' = Raise
    <3>1. /\ reader' \in Readers /\ reader'.unit = reader.unit /\ reader'.item = reader.item
          /\ reader'.at = (IF Threaded THEN "stopWorkers" ELSE "flush") /\ reader'.then = "failed"
      BY Zenon, <2>1, <2>2, RaiseFacts
    <3> QED
      BY Zenon, <3>1
  <2>3. CASE reader' = FlushThen("failed")
    <3>1. /\ reader' \in Readers /\ reader'.at = "flush" /\ reader'.then = "failed"
          /\ reader'.unit = reader.unit /\ reader'.item = reader.item
      BY Zenon, <2>1, <2>3, FlushThenFacts
    <3> QED
      BY Zenon, <3>1
  <2> QED
    BY Zenon, <2>2, <2>3
<1>2. result # "success"
  BY Zenon DEF Control
<1> QED
  BY Zenon, <1>1, <1>2 DEF MovesTo

\* A file is settled: the next item, or the end of the run.
LEMMA SettledMoves ==
    ASSUME Shape, Control, reader.at \in {"file", "lastFile"}, result' = result,
           reader' = [reader EXCEPT !.unit = <<>>,
                        !.at = IF reader.at = "file" THEN "next" ELSE IF Threaded THEN "stopWorkers" ELSE "flush",
                        !.then = "tail"]
    PROVE  MovesTo(reader') /\ reader'.unit = <<>> /\ reader'.then = "tail" /\ reader'.at \in {"next", "stopWorkers", "flush"}
<1>1. PICK a : a = IF reader.at = "file" THEN "next" ELSE IF Threaded THEN "stopWorkers" ELSE "flush"
  OBVIOUS
<1>2. a \in {"next", "stopWorkers", "flush"} /\ reader \in Readers
  BY Zenon, <1>1 DEF Shape, ThreadShape
<1>3. reader' = [reader EXCEPT !.unit = <<>>, !.at = a, !.then = "tail"]
  BY Zenon, <1>1
<1>4. reader' \in Readers /\ reader'.at = a /\ reader'.then = "tail" /\ reader'.unit = <<>>
  BY Zenon, <1>2, <1>3 DEF Readers, Places
<1>5. AllIdle /\ result # "success"
  BY Zenon DEF Control, Towards
<1> QED
  BY Zenon, <1>2, <1>4, <1>5 DEF MovesTo

\* The records of a batch are taken one by one.
LEMMA TakeItemFacts ==
    ASSUME Shape, NEW i \in src.batch, TakeItem(i)
    PROVE  /\ i \in Items /\ reader.at = "next" /\ ~Boundary(i)
           /\ \A x \in src.batch : ~Before(x, i)
           /\ src' \in Sources /\ src'.position = src.position /\ src'.epoch = src.epoch
           /\ src'.batch = src.batch \ {i}
           /\ DOMAIN units' = DOMAIN units \union {UnitOf(i)}
           /\ \A v \in DOMAIN units : units'[v] = units[v]
           /\ UnitOf(i) \notin DOMAIN units => units'[UnitOf(i)] = NoCounts
           /\ units' \in [DOMAIN units' -> Counts]
           /\ reader' \in Readers /\ reader'.item = i
           /\ reader'.unit = IF Broker THEN <<>> ELSE UnitOf(i)
           /\ \/ /\ Threaded /\ reader'.at \in {"join", "next"} /\ reader'.then = "decide"
                 /\ queue' = Append(queue, i) /\ Len(queue) < 2 * Cardinality(Workers)
              \/ /\ ~Threaded /\ reader'.at = "chunk" /\ reader'.then = "decide"
                 /\ queue' = queue
           /\ UNCHANGED <<cfg, worker, lock, buf, acct, sink, acked, ckpt, errors, stop, result, lost, faults>>
<1>1. /\ i \in Items /\ src \in Sources /\ reader \in Readers /\ units \in [DOMAIN units -> Counts]
  BY Zenon DEF Shape, ThreadShape, DataShape, Sources
<1>2. ~Broker => UnitOf(i) \in FileUnits
  BY <1>1 DEF UnitOf, FileUnits, Items
<1>3. /\ reader.at = "next" /\ ~Boundary(i)
      /\ \A x \in src.batch : ~Before(x, i)
      /\ units' = Registered(UnitOf(i))
      /\ src' = [src EXCEPT !.batch = @ \ {i}]
      /\ UNCHANGED <<cfg, worker, lock, buf, acct, sink, acked, ckpt, errors, stop, result, lost, faults>>
  BY Zenon DEF TakeItem, Yields
<1>4. /\ src' \in Sources /\ src'.position = src.position /\ src'.epoch = src.epoch
      /\ src'.batch = src.batch \ {i}
  BY Zenon, <1>1, <1>3 DEF Sources
<1>5. NoCounts \in Counts
  BY DEF NoCounts, Counts
<1>6. /\ DOMAIN units' = DOMAIN units \union {UnitOf(i)}
      /\ \A v \in DOMAIN units : units'[v] = units[v]
      /\ UnitOf(i) \notin DOMAIN units => units'[UnitOf(i)] = NoCounts
  BY Zenon, <1>1, <1>3 DEF Registered
<1>7. units' \in [DOMAIN units' -> Counts]
  <2>1. CASE UnitOf(i) \in DOMAIN units
    BY Zenon, <1>1, <1>3, <2>1 DEF Registered
  <2>2. CASE UnitOf(i) \notin DOMAIN units
    BY Zenon, <1>1, <1>3, <1>5, <2>2 DEF Registered
  <2> QED
    BY Zenon, <2>1, <2>2
<1>8. PICK e \in BOOLEAN : e = (Broker /\ src.batch = {i})
  BY Zenon
<1>9. PICK r : r = [reader EXCEPT !.item = i, !.end = e, !.unit = IF Broker THEN <<>> ELSE UnitOf(i), !.then = "decide"]
  OBVIOUS
<1>10. /\ r \in Readers /\ r.item = i /\ r.unit = (IF Broker THEN <<>> ELSE UnitOf(i)) /\ r.then = "decide"
  BY Zenon, <1>1, <1>2, <1>9 DEF Readers, Places
<1>11. \/ /\ Threaded /\ Len(queue) < 2 * Cardinality(Workers)
          /\ queue' = Append(queue, i)
          /\ reader' = [r EXCEPT !.at = IF e THEN "join" ELSE "next"]
       \/ /\ ~Threaded /\ reader' = [r EXCEPT !.at = "chunk"]
          /\ queue' = queue
  BY Zenon, <1>8, <1>9 DEF TakeItem
<1>12. /\ reader' \in Readers /\ reader'.item = i /\ reader'.unit = r.unit
       /\ \/ /\ Threaded /\ reader'.at \in {"join", "next"} /\ reader'.then = "decide"
             /\ queue' = Append(queue, i) /\ Len(queue) < 2 * Cardinality(Workers)
          \/ /\ ~Threaded /\ reader'.at = "chunk" /\ reader'.then = "decide"
             /\ queue' = queue
  <2>1. CASE /\ Threaded /\ Len(queue) < 2 * Cardinality(Workers)
             /\ queue' = Append(queue, i)
             /\ reader' = [r EXCEPT !.at = IF e THEN "join" ELSE "next"]
    BY Zenon, <1>10, <2>1 DEF Readers, Places
  <2>2. CASE /\ ~Threaded /\ reader' = [r EXCEPT !.at = "chunk"]
             /\ queue' = queue
    BY Zenon, <1>10, <2>2 DEF Readers, Places
  <2> QED
    BY Zenon, <1>11, <2>1, <2>2
<1> QED
  BY Zenon, <1>1, <1>3, <1>4, <1>6, <1>7, <1>10, <1>12

\* Taking an item keeps the types and Control.
LEMMA TakeItemControl ==
    ASSUME Shape, Control, NEW i \in src.batch, TakeItem(i) PROVE Shape' /\ Control'
<1>1. /\ i \in Items /\ reader.at = "next"
      /\ src' \in Sources
      /\ DOMAIN units' = DOMAIN units \union {UnitOf(i)}
      /\ units' \in [DOMAIN units' -> Counts]
      /\ reader' \in Readers /\ reader'.item = i
      /\ \/ /\ Threaded /\ reader'.at \in {"join", "next"} /\ reader'.then = "decide"
            /\ queue' = Append(queue, i) /\ Len(queue) < 2 * Cardinality(Workers)
         \/ /\ ~Threaded /\ reader'.at = "chunk" /\ reader'.then = "decide"
            /\ queue' = queue
      /\ UNCHANGED <<cfg, worker, lock, buf, acct, sink, acked, ckpt, errors, stop, result, lost, faults>>
  BY Zenon, TakeItemFacts
<1>2. UnitOf(i) \in UnitKeys /\ (Broker => UnitOf(i) = i)
  BY Zenon, <1>1, ItemFacts
<1>3. queue' \in Seq(Items) /\ Len(queue') <= 2 * Cardinality(Workers)
  <2>1. CASE queue' = Append(queue, i) /\ Len(queue) < 2 * Cardinality(Workers)
    <3>1. queue \in Seq(Items) /\ i \in Items /\ queue' = Append(queue, i)
      BY Zenon, <1>1, <2>1 DEF Shape, ThreadShape
    <3>2. /\ queue' \in Seq(Items) /\ Len(queue') = Len(queue) + 1
          /\ \A j : Among(queue', j) <=> (j = i \/ Among(queue, j))
      BY Zenon, <3>1, AppendQueue
    <3> QED
      BY <2>1, <3>1, <3>2, StreamConstants, FS_CardinalityType
  <2>2. CASE queue' = queue
    BY Zenon, <2>2 DEF Shape, ThreadShape
  <2> QED
    BY Zenon, <1>1, <2>1, <2>2
<1>4. ThreadShape'
  BY Zenon, <1>1, <1>3 DEF Shape, ThreadShape
<1>5. BufferShape'
  BY Zenon, <1>1 DEF Shape, BufferShape, Broker
<1>6. DataShape'
  BY Zenon, <1>1, <1>2 DEF Shape, DataShape, Broker
<1>7. /\ Threaded' <=> Threaded
      /\ Broker' <=> Broker
      /\ Buffered' <=> Buffered
      /\ ~Towards({"decide", "file", "lastFile"})' /\ ~Towards({"tail", "close"})'
      /\ ~Threaded => (AllIdle' <=> AllIdle)
  BY Zenon, <1>1 DEF Threaded, Broker, Buffered, Towards, AllIdle
<1>8. Control'
  BY Zenon, <1>1, <1>7 DEF Control
<1> QED
  BY Zenon, <1>4, <1>5, <1>6, <1>8 DEF Shape

-----------------------------------------------------------------------------
(* A chunk is processed.                                                   *)

\* The reader is not closer to a file boundary or to the end than before.
Lingers ==
    /\ reader'.unit = reader.unit
    /\ \A f \in {"file", "lastFile"} : Nearing(f)' => Nearing(f)
    /\ reader'.at = "close" => reader.at = "close"

\* A reader that did not move lingers.
LEMMA StandsStill == ASSUME reader' = reader PROVE Lingers
BY Zenon DEF Lingers, Nearing

\* The buffer after one chunk was processed.
LEMMA ProcBuffer ==
    ASSUME Shape, NEW i \in Items, NEW raises \in BOOLEAN, NEW kind, ProcStep(i, raises, kind)
    PROVE  /\ buf' \in Buffers /\ buf'.completed = buf.completed
           /\ buf'.records = IF kind = "keeps" THEN buf.records \union {i} ELSE buf.records
           /\ \E k \in BOOLEAN :
                /\ k <=> kind = "keeps"
                /\ buf'.contributors = IF Broker /\ ~raises THEN buf.contributors \union {<<i, k>>} ELSE buf.contributors
<1>1. PICK k \in BOOLEAN : k = (kind = "keeps")
  BY Zenon
<1>2. /\ buf' = IF raises THEN buf ELSE Appended(i, k)
      /\ kind = "keeps" => ~raises
      /\ buf \in Buffers
  BY Zenon, <1>1 DEF ProcStep, Shape, BufferShape
<1>3. CASE raises
  BY Zenon, <1>1, <1>2, <1>3
<1>4. CASE ~raises
  <2>1. buf' = Appended(i, k)
    BY Zenon, <1>2, <1>4
  <2>2. <<i, k>> \in Items \X BOOLEAN
    BY Zenon
  <2>3. /\ buf' \in Buffers /\ buf'.completed = buf.completed
        /\ buf'.records = IF k THEN buf.records \union {i} ELSE buf.records
        /\ buf'.contributors = IF Broker THEN buf.contributors \union {<<i, k>>} ELSE buf.contributors
    <3>1. PICK rs : rs = IF k THEN buf.records \union {i} ELSE buf.records
      BY Zenon
    <3>2. PICK cs : cs = IF Broker THEN buf.contributors \union {<<i, k>>} ELSE buf.contributors
      BY Zenon
    <3>3. rs \in SUBSET Items /\ cs \in SUBSET (Items \X BOOLEAN)
      BY Zenon, <1>2, <2>2, <3>1, <3>2 DEF Buffers
    <3>4. buf' = [buf EXCEPT !.records = rs, !.contributors = cs]
      BY Zenon, <2>1, <3>1, <3>2 DEF Appended
    <3>5. buf' \in Buffers /\ buf'.completed = buf.completed /\ buf'.records = rs /\ buf'.contributors = cs
      BY Zenon, <1>2, <3>3, <3>4 DEF Buffers
    <3> QED
      BY Zenon, <3>1, <3>2, <3>5
  <2> QED
    BY Zenon, <1>1, <1>4, <2>3
<1> QED
  BY Zenon, <1>3, <1>4

\* Processing a chunk keeps the types of the data.
LEMMA ProcShape ==
    ASSUME Shape, NEW i \in Items, NEW raises \in BOOLEAN, NEW kind, ProcStep(i, raises, kind),
           UNCHANGED <<cfg, src, lock, acked, ckpt>>
    PROVE  BufferShape' /\ DataShape'
<1>1. /\ buf' \in Buffers /\ buf'.completed = buf.completed
      /\ buf'.records = IF kind = "keeps" THEN buf.records \union {i} ELSE buf.records
      /\ \E k \in BOOLEAN :
           /\ k <=> kind = "keeps"
           /\ buf'.contributors = IF Broker /\ ~raises THEN buf.contributors \union {<<i, k>>} ELSE buf.contributors
  BY Zenon, ProcBuffer
<1>2. IsFiniteSet(buf'.records)
  <2>1. IsFiniteSet(buf.records)
    BY Zenon DEF Shape, BufferShape
  <2>2. IsFiniteSet(buf.records \union {i})
    BY Zenon, <2>1, FS_AddElement
  <2> QED
    BY Zenon, <1>1, <2>1, <2>2
<1>3. BufferShape'
  <2>1. ~Broker => buf'.contributors = buf.contributors
    BY Zenon, <1>1
  <2> QED
    BY Zenon, <1>1, <1>2, <2>1 DEF Shape, BufferShape, Broker
<1>4. DataShape'
  <2>1. /\ DOMAIN units' = DOMAIN units /\ units' \in [DOMAIN units -> Counts]
        /\ acct' \in Accounts
        /\ sink' \in Sinks /\ sink'.written = sink.written /\ sink'.durable = sink.durable
    BY Zenon DEF ProcStep
  <2> QED
    BY Zenon, <2>1 DEF Shape, DataShape, Broker
<1> QED
  BY Zenon, <1>3, <1>4

\* Some thread processes item i.
ChunkStep(i, kind, raises) ==
    /\ ProcStep(i, raises, kind)
    /\ UNCHANGED <<cfg, src, lock, acked, ckpt, stop, result, lost>>
    /\ Working(i)
    /\ \A x \in Items : /\ Working(x)' => Working(x)
                        /\ Working(x) => Working(x)' \/ x = i
    /\ Lingers
    /\ Failing \/ raises => Failing'

Kinds == {"keeps", "filters", "letters", "loses", "aborts"}

\* The single-threaded reader's chunk is a chunk step and keeps Control.
LEMMA ReaderChunkFacts ==
    ASSUME Shape, Control, ReaderChunk
    PROVE  /\ \E i \in Items, kind \in Kinds, raises \in BOOLEAN : ChunkStep(i, kind, raises)
           /\ Shape' /\ Control'
<1> DEFINE after == IF reader.end THEN "decide" ELSE "next"
           i == reader.item
<1>1. /\ reader.at = "chunk" /\ i \in Items /\ reader \in Readers
      /\ UNCHANGED <<cfg, src, queue, worker, lock, acked, ckpt, errors, stop, result, lost>>
      /\ \E raises, flush \in BOOLEAN :
              /\ Process(reader.item, reader.end, raises, flush)
              /\ reader' = IF raises THEN Raise ELSE IF flush THEN FlushThen(after) ELSE Goto(after)
  BY Zenon DEF ReaderChunk, Shape, ThreadShape
<1>2. PICK raises \in BOOLEAN, flush \in BOOLEAN :
              /\ Process(reader.item, reader.end, raises, flush)
              /\ reader' = IF raises THEN Raise ELSE IF flush THEN FlushThen(after) ELSE Goto(after)
  BY Zenon, <1>1
<1>3. PICK kind \in Kinds : ProcStep(i, raises, kind)
  <2>1. /\ \E k \in Kinds : ProcStep(i, raises, k)
        /\ raises => ~flush
        /\ ~raises => flush \in MayFlush(buf', reader.end)
    BY Zenon, <1>1, <1>2, ProcessFacts DEF Kinds
  <2> QED
    BY Zenon, <2>1
<1>4. after \in Places /\ after \in {"decide", "next"} /\ "failed" \in Places
  BY Zenon DEF Places
<1> HIDE DEF after
<1>5. /\ ~Threaded /\ AllIdle /\ result # "success" /\ reader.then # "failed" /\ lock.by # "reader"
  BY Zenon, <1>1 DEF Control
<1>6. /\ reader' \in Readers /\ reader'.unit = reader.unit
      /\ \/ raises /\ reader'.at = "flush" /\ reader'.then = "failed"
         \/ reader'.at = "flush" /\ reader'.then = after
         \/ reader'.at = after /\ reader'.then = reader.then
  <2>1. CASE raises
    <3>1. /\ reader' \in Readers /\ reader'.unit = reader.unit /\ reader'.item = reader.item
          /\ reader'.at = (IF Threaded THEN "stopWorkers" ELSE "flush") /\ reader'.then = "failed"
      BY Zenon, <1>1, <1>2, <2>1, RaiseFacts
    <3> QED
      BY Zenon, <1>5, <2>1, <3>1
  <2>2. CASE ~raises /\ flush
    <3>1. reader' = FlushThen(after)
      BY Zenon, <1>2, <2>2
    <3>2. /\ reader' \in Readers /\ reader'.at = "flush" /\ reader'.then = after
          /\ reader'.unit = reader.unit /\ reader'.item = reader.item
      BY Zenon, <1>1, <1>4, <3>1, FlushThenFacts
    <3> QED
      BY Zenon, <3>2
  <2>3. CASE ~raises /\ ~flush
    <3>1. reader' = Goto(after)
      BY Zenon, <1>2, <2>3
    <3>2. /\ reader' \in Readers /\ reader'.at = after /\ reader'.then = reader.then
          /\ reader'.unit = reader.unit /\ reader'.item = reader.item
      BY Zenon, <1>1, <1>4, <3>1, GotoFacts
    <3> QED
      BY Zenon, <3>2
  <2> QED
    BY Zenon, <2>1, <2>2, <2>3
<1>7. reader'.at # "chunk" /\ reader'.at # "join" /\ reader'.at # "close" /\ ~Nearing("file")' /\ ~Nearing("lastFile")'
  BY Zenon, <1>4, <1>5, <1>6 DEF Nearing
<1>8. ChunkStep(i, kind, raises)
  <2>1. Lingers
    BY Zenon, <1>6, <1>7 DEF Lingers
  <2>2. Working(i) /\ \A x \in Items : /\ Working(x)' => Working(x)
                                       /\ Working(x) => Working(x)' \/ x = i
    BY Zenon, <1>1, <1>7 DEF Working
  <2>3. Failing \/ raises => Failing'
    <3>1. raises => reader'.then = "failed"
      <4>1. raises => reader' = Raise
        BY Zenon, <1>2
      <4>2. ASSUME reader' = Raise PROVE /\ reader' \in Readers /\ reader'.unit = reader.unit /\ reader'.item = reader.item
           /\ reader'.at = (IF Threaded THEN "stopWorkers" ELSE "flush") /\ reader'.then = "failed"
        BY Zenon, <1>1, <4>2, RaiseFacts
      <4> QED
        BY Zenon, <4>1, <4>2
    <3> QED
      BY Zenon, <1>1, <1>5, <3>1 DEF Failing
  <2> QED
    BY Zenon, <1>1, <1>3, <2>1, <2>2, <2>3 DEF ChunkStep
<1>9. BufferShape' /\ DataShape'
  <2>1. UNCHANGED <<cfg, src, lock, acked, ckpt>>
    BY Zenon, <1>1
  <2> QED
    BY Zenon, <1>1, <1>3, <2>1, ProcShape
<1>10. ThreadShape'
  <2>1. faults' \in Nat
    BY Zenon, <1>3 DEF ProcStep
  <2> QED
    BY Zenon, <1>1, <1>6, <1>7, <2>1 DEF Shape, ThreadShape
<1>11. Control'
  <2>1. AllIdle' /\ ~Threaded' /\ (Broker' <=> Broker)
    BY Zenon, <1>1, <1>5 DEF AllIdle, Threaded, Broker
  <2>2. /\ reader'.at \in {"flush", "next", "decide"} /\ (reader'.at = "flush" => reader'.then \in {"decide", "next", "failed"})
        /\ reader'.then = "failed" => reader'.at = "flush"
        /\ reader'.then = "failed" \/ ~Towards({"tail", "close"})'
    BY Zenon, <1>4, <1>5, <1>6 DEF Towards
  <2> QED
    BY Zenon, <1>1, <1>5, <2>1, <2>2 DEF Control
<1> QED
  BY Zenon, <1>1, <1>8, <1>9, <1>10, <1>11 DEF Shape

\* A worker's chunk is a chunk step and keeps Control.
LEMMA WorkerChunkFacts ==
    ASSUME Shape, Control, NEW w \in Workers, WorkerChunk(w)
    PROVE  /\ \E i \in Items, kind \in Kinds, raises \in BOOLEAN : ChunkStep(i, kind, raises)
           /\ Shape' /\ Control'
<1> DEFINE i == worker[w].item
<1>1. /\ worker[w].at = "chunk" /\ i \in Items /\ worker \in [Workers -> Threads] /\ worker[w] \in Threads
      /\ UNCHANGED <<cfg, src, reader, queue, lock, acked, ckpt, stop, result, lost>>
      /\ errors \in BOOLEAN
      /\ \E raises, flush \in BOOLEAN :
          /\ Process(worker[w].item, FALSE, raises, flush)
          /\ worker' = [worker EXCEPT ![w] = IF flush THEN [worker[w] EXCEPT !.at = "flush"] ELSE Idle]
          /\ errors' = (errors \/ raises)
  BY Zenon DEF WorkerChunk, Shape, ThreadShape
<1>2. PICK raises \in BOOLEAN, flush \in BOOLEAN :
          /\ Process(worker[w].item, FALSE, raises, flush)
          /\ worker' = [worker EXCEPT ![w] = IF flush THEN [worker[w] EXCEPT !.at = "flush"] ELSE Idle]
          /\ errors' = (errors \/ raises)
  BY Zenon, <1>1
<1>3. PICK kind \in Kinds : ProcStep(i, raises, kind)
  <2>1. /\ \E k \in Kinds : ProcStep(i, raises, k)
        /\ raises => ~flush
        /\ ~raises => flush \in MayFlush(buf', FALSE)
    <3>1. PICK x \in Items : x = worker[w].item
      BY Zenon, <1>1
    <3>2. Process(x, FALSE, raises, flush)
      BY Zenon, <1>2, <3>1
    <3>3. /\ \E k \in {"keeps", "filters", "letters", "loses", "aborts"} : ProcStep(x, raises, k)
          /\ raises => ~flush
          /\ ~raises => flush \in MayFlush(buf', FALSE)
      BY Zenon, <3>2, ProcessFacts
    <3> QED
      BY Zenon, <3>1, <3>3 DEF Kinds
  <2> QED
    BY Zenon, <2>1
<1>4. PICK now : now = IF flush THEN [worker[w] EXCEPT !.at = "flush"] ELSE Idle
  BY Zenon
<1>5. now \in Threads /\ now.at \in {"flush", "idle"}
  <2>1. CASE flush
    BY Zenon, <1>1, <1>4, <2>1 DEF Threads
  <2>2. CASE ~flush
    BY Zenon, <1>4, <2>2, IdleThread
  <2> QED
    BY Zenon, <2>1, <2>2
<1>6. /\ worker' \in [Workers -> Threads] /\ worker'[w] = now
      /\ \A v \in Workers : v # w => worker'[v] = worker[v]
  <2>1. worker' = [worker EXCEPT ![w] = now]
    BY Zenon, <1>2, <1>4
  <2> QED
    BY Zenon, <1>1, <1>5, <2>1
<1>7. worker[w] # Idle
  BY Zenon, <1>1, IdleThread
<1>8. ChunkStep(i, kind, raises)
  <2>1. Lingers
    BY Zenon, <1>1, StandsStill
  <2>2. Working(i) /\ \A x \in Items : /\ Working(x)' => Working(x)
                                       /\ Working(x) => Working(x)' \/ x = i
    <3>1. Working(i)
      BY Zenon, <1>1 DEF Working
    <3>2. ASSUME NEW x \in Items, Working(x)' PROVE Working(x)
      BY Zenon, <1>1, <1>5, <1>6, <3>2 DEF Working
    <3>3. ASSUME NEW x \in Items, Working(x), x # i PROVE Working(x)'
      <4>1. CASE Among(queue, x) \/ (reader.at = "chunk" /\ reader.item = x)
        BY Zenon, <1>1, <4>1 DEF Working
      <4>2. CASE \E v \in Workers : worker[v].at = "chunk" /\ worker[v].item = x
        <5>1. PICK v \in Workers : worker[v].at = "chunk" /\ worker[v].item = x
          BY Zenon, <4>2
        <5>2. worker'[v] = worker[v]
          BY Zenon, <1>6, <3>3, <5>1
        <5> QED
          BY Zenon, <5>1, <5>2 DEF Working
      <4> QED
        BY Zenon, <3>3, <4>1, <4>2 DEF Working
    <3> QED
      BY Zenon, <3>1, <3>2, <3>3
  <2>3. Failing \/ raises => Failing'
    BY Zenon, <1>1, <1>2 DEF Failing
  <2> QED
    BY Zenon, <1>1, <1>3, <2>1, <2>2, <2>3 DEF ChunkStep
<1>9. BufferShape' /\ DataShape'
  <2>1. UNCHANGED <<cfg, src, lock, acked, ckpt>>
    BY Zenon, <1>1
  <2> QED
    BY Zenon, <1>1, <1>3, <2>1, ProcShape
<1>10. ThreadShape'
  <2>1. faults' \in Nat
    BY Zenon, <1>3 DEF ProcStep
  <2>2. errors' \in BOOLEAN
    BY Zenon, <1>1, <1>2
  <2>3. \A v \in Workers : worker'[v].at = "chunk" => worker'[v].item \in Items
    BY Zenon, <1>5, <1>6 DEF Shape, ThreadShape
  <2> QED
    BY Zenon, <1>1, <1>6, <2>1, <2>2, <2>3 DEF Shape, ThreadShape
<1>11. Control'
  <2>1. /\ Threaded' /\ (Broker' <=> Broker) /\ reader.at # "chunk"
        /\ ~Towards({"decide", "file", "lastFile"})'
        /\ Towards({"tail", "close"})' => lost
    <3>1. /\ ~AllIdle /\ Threaded /\ reader.at # "chunk"
          /\ ~Towards({"decide", "file", "lastFile"})
          /\ Towards({"tail", "close"}) => lost
      BY Zenon, <1>7, BusyWorker
    <3> QED
      BY Zenon, <1>1, <3>1 DEF Threaded, Broker, Towards
  <2>2. \A v \in Workers : worker'[v].at = "flushing" <=> lock'.by = v
    <3>1. lock.by # w
      BY Zenon, <1>1 DEF Control
    <3> QED
      BY Zenon, <1>1, <1>5, <1>6, <3>1 DEF Control
  <2>3. /\ reader'.at \notin {"file", "lastFile"}
        /\ reader'.at \in {"tail", "close"} => lost
        /\ reader'.at = "flushing" => reader'.then \notin {"file", "lastFile"}
        /\ reader'.at = "flushing" /\ reader'.then = "tail" => lost
    BY Zenon, <2>1 DEF Towards
  <2> QED
    BY Zenon, <1>1, <2>1, <2>2, <2>3 DEF Control
<1> QED
  BY Zenon, <1>1, <1>8, <1>9, <1>10, <1>11 DEF Shape

-----------------------------------------------------------------------------
(* A flush ends.                                                           *)

FlushKinds == {"writes", "letters", "loses", "swallows", "crashes"}

\* Where the reader is after a flush: only its own flush moves it.
LEMMA FlushReader ==
    ASSUME Shape, Control, NEW raises \in BOOLEAN, lock.by # "none",
           IF raises THEN Raises(lock.by) ELSE Returns(lock.by)
    PROVE  /\ reader' \in Readers /\ reader'.unit = reader.unit
           /\ lock.by # "reader" => reader' = reader
           /\ lock.by = "reader" =>
                /\ reader.at = "flushing"
                /\ \/ ~raises /\ reader'.at = reader.then /\ reader'.then = reader.then
                   \/ raises /\ reader'.then = "failed" /\ reader'.at \in {"failed", "flush", "stopWorkers"}
<1>1. reader \in Readers /\ reader.then \in Places /\ "failed" \in Places
  BY Zenon DEF Shape, ThreadShape, Readers, Places
<1>2. CASE lock.by # "reader"
  <2>1. reader' = reader
    BY Zenon, <1>2 DEF Raises, Returns
  <2> QED
    BY Zenon, <1>1, <1>2, <2>1
<1>3. CASE lock.by = "reader"
  <2>1. reader.at = "flushing"
    BY Zenon, <1>3 DEF Control
  <2>2. CASE ~raises
    <3>1. reader' = Goto(reader.then)
      BY Zenon, <1>3, <2>2 DEF Returns
    <3>2. /\ reader' \in Readers /\ reader'.at = reader.then /\ reader'.then = reader.then
          /\ reader'.unit = reader.unit /\ reader'.item = reader.item
      BY Zenon, <1>1, <3>1, GotoFacts
    <3> QED
      BY Zenon, <1>3, <2>1, <2>2, <3>2
  <2>3. CASE raises
    <3>1. \/ reader.then = "failed" /\ reader' = Goto("failed")
          \/ reader' = FlushThen("failed")
          \/ reader' = Raise
      BY Zenon, <1>3, <2>3 DEF Raises
    <3>2. CASE reader.then = "failed" /\ reader' = Goto("failed")
      <4>1. /\ reader' \in Readers /\ reader'.at = "failed" /\ reader'.then = reader.then
            /\ reader'.unit = reader.unit /\ reader'.item = reader.item
        BY Zenon, <1>1, <3>2, GotoFacts
      <4> QED
        BY Zenon, <1>3, <2>1, <2>3, <3>2, <4>1
    <3>3. CASE reader' = FlushThen("failed")
      <4>1. /\ reader' \in Readers /\ reader'.at = "flush" /\ reader'.then = "failed"
            /\ reader'.unit = reader.unit /\ reader'.item = reader.item
        BY Zenon, <1>1, <3>3, FlushThenFacts
      <4> QED
        BY Zenon, <1>3, <2>1, <2>3, <4>1
    <3>4. CASE reader' = Raise
      <4>1. /\ reader' \in Readers /\ reader'.unit = reader.unit /\ reader'.item = reader.item
            /\ reader'.at = (IF Threaded THEN "stopWorkers" ELSE "flush") /\ reader'.then = "failed"
        BY Zenon, <1>1, <3>4, RaiseFacts
      <4> QED
        BY Zenon, <1>3, <2>1, <2>3, <4>1
    <3> QED
      BY Zenon, <3>1, <3>2, <3>3, <3>4
  <2> QED
    BY Zenon, <2>2, <2>3
<1> QED
  BY Zenon, <1>2, <1>3

\* The flush moves no item and loses no failure; one that raises is noticed.
LEMMA FlushThreads ==
    ASSUME Shape, Control, NEW kind \in FlushKinds, NEW raises \in BOOLEAN, FlushStep(kind, raises)
    PROVE  /\ \A x \in Items : Working(x)' <=> Working(x)
           /\ Lingers
           /\ Failing => Failing'
           /\ lost => lost'
           /\ raises => Failing' \/ lost'
           /\ Shape' /\ Control'
<1>1. /\ lock.by # "none" /\ lock' = Free
      /\ IF raises THEN Raises(lock.by) ELSE Returns(lock.by)
      /\ UNCHANGED <<cfg, src, queue, acked, ckpt, stop, result>>
      /\ lock \in Locks /\ worker \in [Workers -> Threads] /\ errors \in BOOLEAN /\ lost \in BOOLEAN
  BY Zenon DEF FlushStep, FlushUnchanged, Shape, BufferShape, ThreadShape
<1>2. /\ reader' \in Readers /\ reader'.unit = reader.unit
      /\ lock.by # "reader" => reader' = reader
      /\ lock.by = "reader" =>
            /\ reader.at = "flushing"
            /\ \/ ~raises /\ reader'.at = reader.then /\ reader'.then = reader.then
               \/ raises /\ reader'.then = "failed" /\ reader'.at \in {"failed", "flush", "stopWorkers"}
  BY Zenon, <1>1, FlushReader
<1>3. /\ worker' \in [Workers -> Threads]
      /\ \A w \in Workers : worker'[w] = IF w = lock.by THEN Idle ELSE worker[w]
  <2>1. worker' = [w \in Workers |-> IF w = lock.by THEN Idle ELSE worker[w]]
    BY Zenon, <1>1 DEF Raises, Returns
  <2> QED
    BY Zenon, <1>1, <2>1, IdleThread
<1>4. /\ errors' \in BOOLEAN /\ lost' \in BOOLEAN /\ (errors => errors') /\ (lost => lost')
      /\ raises => (lock.by \in Workers => errors') /\ (lock.by = "flusher" => lost')
      /\ lock.by \notin Workers => errors' = errors
      /\ lock.by # "flusher" => lost' = lost
  BY Zenon, <1>1 DEF Raises, Returns
<1>5. lock.by \in Workers \/ lock.by = "reader" \/ lock.by = "flusher"
  BY Zenon, <1>1 DEF Locks
<1>6. \A w \in Workers : worker[w].at = "flushing" <=> lock.by = w
  BY Zenon DEF Control
<1>7. Free.by = "none" /\ Free.records = {} /\ Free.contributors = {} /\ Free \in Locks
  BY Zenon DEF Free, Locks
<1>8. "none" \notin Workers /\ "reader" \notin Workers /\ "flusher" \notin Workers
  BY Zenon, StreamConstants
<1>9. reader'.at # "chunk" \/ reader' = reader
  BY Zenon, <1>2 DEF Control
<1>10. \A x \in Items : Working(x)' <=> Working(x)
  <2>1. \A w \in Workers : worker'[w].at = "chunk" \/ worker[w].at = "chunk" => worker'[w] = worker[w]
    BY Zenon, <1>3, <1>6, IdleThread
  <2>2. reader'.at = "chunk" \/ reader.at = "chunk" => reader' = reader
    BY Zenon, <1>2, <1>9
  <2>3. ASSUME NEW x \in Items, Working(x) PROVE Working(x)'
    BY Zenon, <1>1, <2>1, <2>2, <2>3 DEF Working
  <2>4. ASSUME NEW x \in Items, Working(x)' PROVE Working(x)
    BY Zenon, <1>1, <2>1, <2>2, <2>4 DEF Working
  <2> QED
    BY Zenon, <2>3, <2>4
<1>11. Lingers
  <2>1. CASE reader' = reader
    BY Zenon, <2>1, StandsStill
  <2>2. CASE lock.by = "reader"
    <3>1. reader.at = "flushing" /\ reader.then \in {"next", "decide", "tail", "file", "lastFile", "failed"}
      BY Zenon, <1>2, <2>2 DEF Control
    <3>2. reader'.at # "close" /\ reader'.at # "join"
      BY Zenon, <1>2, <2>2, <3>1
    <3>3. ASSUME NEW f \in {"file", "lastFile"}, Nearing(f)' PROVE Nearing(f)
      BY Zenon, <1>2, <2>2, <3>1, <3>3 DEF Nearing
    <3> QED
      BY Zenon, <1>2, <3>2, <3>3 DEF Lingers
  <2> QED
    BY Zenon, <1>2, <2>1, <2>2
<1>12. /\ Failing => Failing'
       /\ raises => Failing' \/ lost'
  <2>1. reader.then = "failed" => reader'.then = "failed"
    BY Zenon, <1>2
  <2>2. raises /\ lock.by = "reader" => reader'.then = "failed"
    BY Zenon, <1>2
  <2> QED
    BY Zenon, <1>4, <1>5, <2>1, <2>2 DEF Failing
<1>13. Shape'
  <2>1. ThreadShape'
    <3>1. faults' \in Nat
      BY Zenon DEF FlushStep
    <3>2. \A w \in Workers : worker'[w].at = "chunk" => worker'[w].item \in Items
      BY Zenon, <1>3, IdleThread DEF Shape, ThreadShape
    <3>3. reader'.at = "chunk" => reader'.item \in Items
      BY Zenon, <1>9 DEF Shape, ThreadShape
    <3> QED
      BY Zenon, <1>1, <1>2, <1>3, <1>4, <3>1, <3>2, <3>3 DEF Shape, ThreadShape
  <2>2. BufferShape'
    <3>1. /\ buf' \in Buffers /\ buf'.records = buf.records /\ buf'.contributors = buf.contributors
          /\ ~Broker => buf'.completed = buf.completed
      BY Zenon DEF FlushStep, FlushCompletes
    <3> QED
      BY Zenon, <1>1, <1>7, <3>1, FS_EmptySet DEF Shape, BufferShape, Broker
  <2>3. DataShape'
    <3>1. /\ DOMAIN units' = DOMAIN units /\ units' \in [DOMAIN units -> Counts]
          /\ acct' \in Accounts /\ sink' \in Sinks /\ sink'.durable = sink.durable
          /\ sink.written \subseteq sink'.written
      BY Zenon DEF FlushStep, FlushCharges
    <3> QED
      BY Zenon, <1>1, <3>1 DEF Shape, DataShape, Broker
  <2> QED
    BY Zenon, <2>1, <2>2, <2>3 DEF Shape
<1>14. Control'
  <2>1. /\ Threaded' <=> Threaded
        /\ Broker' <=> Broker
        /\ Buffered' <=> Buffered
    <3>1. buf'.records = buf.records /\ buf'.contributors = buf.contributors
      BY Zenon DEF FlushStep, FlushCompletes
    <3> QED
      BY Zenon, <1>1, <3>1 DEF Threaded, Broker, Buffered
  <2>2. /\ \A w \in Workers : worker'[w].at # "flushing"
        /\ reader'.at # "flushing"
    <3>1. \A w \in Workers : worker'[w].at # "flushing"
      BY Zenon, <1>3, <1>6, IdleThread
    <3>2. reader'.at # "flushing"
      BY Zenon, <1>2 DEF Control
    <3> QED
      BY Zenon, <3>1, <3>2
  <2>3. \A w \in Workers : worker'[w].at = "flushing" <=> lock'.by = w
    BY Zenon, <1>1, <1>7, <1>8, <2>2
  <2>4. AllIdle => AllIdle'
    <3>1. lock.by \notin Workers \/ ~AllIdle
      BY Zenon, <1>6, IdleThread DEF AllIdle
    <3> QED
      BY Zenon, <1>1, <1>3, <1>4, <3>1 DEF AllIdle
  <2>5. /\ Towards({"decide", "file", "lastFile"})' => Towards({"decide", "file", "lastFile"})
        /\ Towards({"tail", "close"})' => Towards({"tail", "close"})
    BY Zenon, <1>2, <2>2 DEF Towards
  <2>6. CASE lock.by # "reader"
    <3>1. reader' = reader /\ lock # Free
      BY Zenon, <1>1, <1>2, <1>7, <2>6
    <3>2. /\ reader'.at \notin {"file", "lastFile"}
          /\ reader'.at \in {"tail", "close"} => lost
      BY Zenon, <3>1 DEF Control
    <3>3. /\ reader'.at = "chunk" => ~Threaded
          /\ reader'.then = "failed" => reader'.at \in {"stopWorkers", "flush", "flushing", "failed", "ended"}
          /\ reader'.at \in {"flush", "flushing"} =>
                reader'.then \in {"next", "decide", "tail", "file", "lastFile", "failed"}
          /\ reader'.at = "join" => reader'.then \in {"decide", "file", "lastFile"}
          /\ reader'.at = "stopWorkers" => reader'.then \in {"tail", "failed"}
          /\ result' = "success" => reader'.at = "ended"
      BY Zenon, <1>1, <3>1 DEF Control
    <3> QED
      BY Zenon, <1>1, <1>4, <1>7, <2>1, <2>2, <2>3, <2>4, <2>5, <3>2, <3>3 DEF Control
  <2>7. CASE lock.by = "reader"
    <3>1. /\ reader.at = "flushing" /\ result # "success" /\ lost' = lost
          /\ reader.then \in {"next", "decide", "tail", "file", "lastFile", "failed"}
          /\ reader.then \in {"file", "lastFile"} => ~Buffered
          /\ reader.then = "tail" /\ ~lost => ~Buffered
      BY Zenon, <1>2, <1>4, <2>7 DEF Control
    <3>2. /\ reader'.at \in {"file", "lastFile"} => ~Buffered /\ reader'.then # "failed"
          /\ reader'.at \in {"tail", "close"} /\ ~lost => ~Buffered
          /\ reader'.at # "chunk" /\ reader'.at # "join"
          /\ reader'.then = "failed" => reader'.at \in {"stopWorkers", "flush", "flushing", "failed", "ended"}
          /\ reader'.at \in {"flush", "flushing"} =>
                reader'.then \in {"next", "decide", "tail", "file", "lastFile", "failed"}
          /\ reader'.at = "stopWorkers" => reader'.then \in {"tail", "failed"}
      BY Zenon, <1>2, <2>7, <3>1
    <3> QED
      BY Zenon, <1>1, <1>4, <1>7, <2>1, <2>2, <2>3, <2>4, <2>5, <3>1, <3>2 DEF Control
  <2> QED
    BY Zenon, <2>6, <2>7
<1> QED
  BY Zenon, <1>4, <1>10, <1>11, <1>12, <1>13, <1>14

-----------------------------------------------------------------------------
(* The cohort of completed broker units is decided.                        *)

\* ok: the sinks committed.  clean: nothing of the cohort is behind a gap.
DecisionStep(ok, clean) ==
    /\ DOMAIN units' = DOMAIN units \ buf.completed
    /\ units' \in [DOMAIN units' -> Counts] /\ \A v \in DOMAIN units' : units'[v] = units[v]
    /\ buf' \in Buffers /\ buf'.records = buf.records /\ buf'.contributors = buf.contributors /\ buf'.completed = {}
    /\ acct' \in Accounts /\ (acct'.loss <=> acct.loss) /\ (acct.pending => acct'.pending)
    /\ \A p \in Keys : acct'.gaps[p] <= acct.gaps[p]
    /\ \A u \in buf.completed : (ok /\ Decided(u)) \/ acct'.gaps[u[1]] <= u[2]
    /\ clean => ok /\ \A u \in buf.completed : ~(acct'.gaps[u[1]] <= u[2])
    /\ acked' = acked \/ (clean /\ acked' = acked \union DataOf(buf.completed))
    /\ ~acct'.pending => acked' = acked \union DataOf(buf.completed)
    /\ ckpt' \in [Keys -> 0..Length]
    /\ \A p \in Keys : ckpt'[p] = ckpt[p] \/ (clean /\ \E u \in buf.completed : u[1] = p /\ ckpt'[p] = u[2])
    /\ sink' \in Sinks /\ sink'.written = sink.written /\ Spared' = Spared
    /\ sink'.dlq = sink.dlq
    /\ sink'.durable = IF ok THEN sink.durable \union sink.written ELSE sink.durable
    /\ sink'.dropped = IF ok THEN sink.dropped \union DataOf(Dispositions(buf.completed, "dropped")) ELSE sink.dropped
    /\ faults' \in Nat

\* broker_gaps only sinks, at least to the undecided units.
LEMMA GapsFacts ==
    ASSUME Shape, NEW ok \in BOOLEAN, NEW g, g = Gaps(ok)
    PROVE  /\ g \in [Keys -> Nat]
           /\ \A p \in Keys : g[p] <= acct.gaps[p]
           /\ \A u \in buf.completed : (ok /\ Decided(u)) \/ g[u[1]] <= u[2]
<1> DEFINE low(p) == {u[2] : u \in {v \in buf.completed : v[1] = p /\ (~ok \/ ~Decided(v))}}
           S(p) == {acct.gaps[p]} \union low(p)
<1>1. buf.completed \subseteq Items /\ acct.gaps \in [Keys -> Nat]
  BY Zenon DEF Shape, BufferShape, DataShape, Buffers, Accounts
<1>2. \A u \in buf.completed : u[1] \in Keys /\ u[2] \in Nat
  <2> SUFFICES ASSUME NEW u \in buf.completed PROVE u[1] \in Keys /\ u[2] \in Nat
    BY Zenon
  <2>1. u[1] \in Keys /\ u[2] \in 1..Length
    BY Zenon, <1>1, ItemFacts
  <2> QED
    BY <2>1, StreamConstants
<1>3. ASSUME NEW p \in Keys PROVE Min(S(p)) \in Nat /\ \A x \in S(p) : Min(S(p)) <= x
  <2>1. S(p) \in SUBSET Nat /\ S(p) # {}
    BY Zenon, <1>1, <1>2
  <2>2. PICK T \in SUBSET Nat : T = S(p) /\ T # {}
    BY Zenon, <2>1
  <2>3. Min(T) \in T /\ \A x \in T : Min(T) <= x
    BY Zenon, <2>2, MinFacts
  <2> HIDE DEF S
  <2> QED
    BY Zenon, <2>1, <2>2, <2>3
<1>4. g = [p \in Keys |-> Min(S(p))]
  BY Zenon DEF Gaps
<1>5. \A p \in Keys : g[p] = Min(S(p))
  BY Zenon, <1>4
<1>6. g \in [Keys -> Nat]
  <2> HIDE DEF S
  <2> QED
    BY Zenon, <1>3, <1>4
<1>7. \A p \in Keys : \A x \in S(p) : g[p] <= x
  <2> HIDE DEF S
  <2> QED
    BY Zenon, <1>3, <1>5
<1>8. \A p \in Keys : acct.gaps[p] \in S(p)
  BY Zenon
<1>9. ASSUME NEW u \in buf.completed, ~(ok /\ Decided(u)) PROVE u[2] \in S(u[1])
  BY Zenon, <1>9
<1> HIDE DEF S
<1> QED
  BY Zenon, <1>2, <1>6, <1>7, <1>8, <1>9

\* Deciding the completed units is a decision step.
LEMMA DecideFacts ==
    ASSUME Shape, NEW ok \in BOOLEAN, NEW stored \in SUBSET Keys, NEW raised, Decide(ok, stored, raised)
    PROVE  \E clean \in BOOLEAN : DecisionStep(ok, clean)
<1> DEFINE us == buf.completed
           parts == {u[1] : u \in Dispositions(us, "delivered")}
           top(p) == Max({u[2] : u \in {v \in us : v[1] = p}})
<1>1. PICK g : g = Gaps(ok)
  OBVIOUS
<1>2. /\ g \in [Keys -> Nat]
      /\ \A p \in Keys : g[p] <= acct.gaps[p]
      /\ \A u \in us : (ok /\ Decided(u)) \/ g[u[1]] <= u[2]
  BY Zenon, <1>1, GapsFacts
<1>3. PICK gap \in BOOLEAN : gap <=> \E u \in us : g[u[1]] <= u[2]
  BY Zenon
<1>4. PICK blocked \in BOOLEAN : blocked <=> cfg.strict /\ (acct.pending \/ ~ok \/ gap \/ \E u \in us : ~Decided(u))
  BY Zenon
<1>5. PICK ready \in BOOLEAN : ready <=> ok /\ ~gap /\ ~blocked
  BY Zenon
<1>6. PICK confirmed \in BOOLEAN : confirmed <=> ready /\ (cfg.strict => stored = parts)
  BY Zenon
<1>7. PICK acks : acks = IF confirmed THEN {u \in us : Decided(u)} ELSE {}
  BY Zenon
<1>8. /\ stored \subseteq (IF ready THEN parts ELSE {})
      /\ units' = Taken(us)
      /\ buf' = [buf EXCEPT !.completed = {}]
      /\ acct' = [acct EXCEPT !.gaps = g, !.pending = acct.pending \/ ~ok \/ gap \/ blocked \/ (ready /\ ~confirmed)]
      /\ ckpt' = [p \in Keys |-> IF p \in stored /\ top(p) > ckpt[p] THEN top(p) ELSE ckpt[p]]
      /\ acked' = acked \union DataOf(acks)
      /\ sink' = [Committed(ok) EXCEPT !.dropped = IF ok THEN @ \union DataOf(Dispositions(us, "dropped")) ELSE @]
      /\ UNCHANGED faults \/ Fault
  BY Zenon, <1>1, <1>3, <1>4, <1>5, <1>6, <1>7 DEF Decide
<1>9. /\ units \in [DOMAIN units -> Counts] /\ buf \in Buffers /\ acct \in Accounts /\ sink \in Sinks
      /\ us \subseteq Items /\ faults \in Nat /\ ckpt \in [Keys -> 0..Length]
  BY Zenon DEF Shape, ThreadShape, BufferShape, DataShape, Buffers
<1>10. /\ DOMAIN units' = DOMAIN units \ us
      /\ units' \in [DOMAIN units' -> Counts] /\ \A v \in DOMAIN units' : units'[v] = units[v]
  <2>1. units' = [v \in DOMAIN units \ us |-> units[v]]
    BY Zenon, <1>8 DEF Taken
  <2> QED
    BY Zenon, <1>9, <2>1
<1>11. buf' \in Buffers /\ buf'.records = buf.records /\ buf'.contributors = buf.contributors /\ buf'.completed = {}
  BY Zenon, <1>8, <1>9 DEF Buffers
<1>12. PICK pend \in BOOLEAN : pend = (acct.pending \/ ~ok \/ gap \/ blocked \/ (ready /\ ~confirmed))
  BY Zenon
<1>13. /\ acct' \in Accounts /\ (acct'.loss <=> acct.loss) /\ acct'.pending = pend /\ acct'.gaps = g
  <2>1. acct' = [acct EXCEPT !.gaps = g, !.pending = pend]
    BY Zenon, <1>8, <1>12
  <2> QED
    BY Zenon, <1>2, <1>9, <2>1 DEF Accounts
<1>14. \A u \in us : ready => Decided(u)
  BY Zenon, <1>2, <1>3, <1>5
<1>15. confirmed => acked' = acked \union DataOf(us)
  <2>1. confirmed => acks = us
    BY Zenon, <1>6, <1>14, <1>7
  <2> QED
    BY Zenon, <1>8, <2>1
<1>16. ~confirmed => acked' = acked
  <2>1. ~confirmed => acks = {}
    BY Zenon, <1>7
  <2> QED
    BY Zenon, <1>8, <2>1 DEF DataOf
<1>17. ASSUME NEW p \in stored PROVE top(p) \in 0..Length /\ ready /\ \E u \in us : u[1] = p /\ top(p) = u[2]
  <2> DEFINE T == {u[2] : u \in {v \in us : v[1] = p}}
  <2>1. ready /\ \E u \in us : u[1] = p
    BY Zenon, <1>8, <1>17 DEF Dispositions
  <2>2. T # {}
    BY Zenon, <2>1
  <2>3. \A u \in us : u[2] \in 0..Length
    <3> SUFFICES ASSUME NEW u \in us PROVE u[2] \in 0..Length
      BY Zenon
    <3>1. u[2] \in 1..Length
      BY Zenon, <1>9, ItemFacts
    <3> QED
      BY <3>1
  <2>4. T \in SUBSET (0..Length)
    BY Zenon, <2>3
  <2>5. PICK S \in SUBSET (0..Length) : S = T /\ S # {}
    BY Zenon, <2>2, <2>4
  <2>6. Max(S) \in S /\ \A x \in S : x <= Max(S)
    BY Zenon, <2>5, MaxFacts
  <2>7. top(p) \in T
    BY Zenon, <2>5, <2>6
  <2> QED
    BY Zenon, <2>1, <2>4, <2>7
<1>18. /\ ckpt' \in [Keys -> 0..Length]
       /\ \A p \in Keys : ckpt'[p] = ckpt[p] \/ (ready /\ \E u \in us : u[1] = p /\ ckpt'[p] = u[2])
  <2> HIDE DEF top, us
  <2>1. \A p \in Keys : ckpt'[p] = IF p \in stored /\ top(p) > ckpt[p] THEN top(p) ELSE ckpt[p]
    BY Zenon, <1>8
  <2> QED
    BY Zenon, <1>8, <1>9, <1>17, <2>1
<1>19. /\ sink' \in Sinks /\ sink'.written = sink.written /\ Spared' = Spared
       /\ sink'.dlq = sink.dlq
       /\ sink'.durable = IF ok THEN sink.durable \union sink.written ELSE sink.durable
       /\ sink'.dropped = IF ok THEN sink.dropped \union DataOf(Dispositions(us, "dropped")) ELSE sink.dropped
  <2>1. DataOf(Dispositions(us, "dropped")) \subseteq Data
    BY Zenon, <1>9, ItemFacts DEF DataOf, Dispositions
  <2>2. PICK s : s = Committed(ok)
    OBVIOUS
  <2>3. /\ s \in Sinks /\ s.written = sink.written /\ s.filtered = sink.filtered /\ s.swallowed = sink.swallowed
        /\ s.dlq = sink.dlq /\ s.dropped = sink.dropped
        /\ s.durable = IF ok THEN sink.durable \union sink.written ELSE sink.durable
    BY Zenon, <1>9, <2>2 DEF Committed, Sinks
  <2>4. PICK D : D = IF ok THEN s.dropped \union DataOf(Dispositions(us, "dropped")) ELSE s.dropped
    BY Zenon
  <2>5. D \subseteq Data
    BY Zenon, <2>1, <2>3, <2>4 DEF Sinks
  <2>6. sink' = [s EXCEPT !.dropped = D]
    BY Zenon, <1>8, <2>2, <2>4
  <2>7. /\ sink' \in Sinks /\ sink'.written = s.written /\ sink'.filtered = s.filtered /\ sink'.swallowed = s.swallowed
        /\ sink'.dlq = s.dlq /\ sink'.dropped = D /\ sink'.durable = s.durable
    BY Zenon, <2>3, <2>5, <2>6 DEF Sinks
  <2> QED
    BY Zenon, <2>3, <2>4, <2>7 DEF Spared
<1>20. faults' \in Nat
  BY <1>8, <1>9 DEF Fault
<1>21. ready => ok /\ \A u \in us : ~(g[u[1]] <= u[2])
  BY Zenon, <1>3, <1>5
<1>22. acked' = acked \/ (ready /\ acked' = acked \union DataOf(us))
  BY Zenon, <1>6, <1>15, <1>16
<1>23. ~pend => acked' = acked \union DataOf(us)
  BY Zenon, <1>5, <1>12, <1>15
<1>24. acct.pending => acct'.pending
  BY Zenon, <1>12, <1>13
<1> HIDE DEF us
<1>25. /\ \A p \in Keys : acct'.gaps[p] <= acct.gaps[p]
       /\ \A u \in us : (ok /\ Decided(u)) \/ acct'.gaps[u[1]] <= u[2]
       /\ ready => ok /\ \A u \in us : ~(acct'.gaps[u[1]] <= u[2])
       /\ ~acct'.pending => acked' = acked \union DataOf(us)
  BY Zenon, <1>2, <1>13, <1>21, <1>23
<1>26. DecisionStep(ok, ready)
  BY Zenon, <1>10, <1>11, <1>13, <1>18, <1>19, <1>20, <1>22, <1>24, <1>25 DEF DecisionStep, us
<1> QED
  BY Zenon, <1>26

\* A decision keeps the types of the data.
LEMMA DecisionShape ==
    ASSUME Shape, NEW ok, NEW clean, DecisionStep(ok, clean), UNCHANGED <<cfg, src, lock>>
    PROVE  BufferShape' /\ DataShape'
<1>1. BufferShape'
  BY Zenon DEF DecisionStep, Shape, BufferShape, Broker
<1>2. acked' \subseteq Data
  <2>1. DataOf(buf.completed) \subseteq Data
    BY Zenon, ItemFacts DEF Shape, BufferShape, Buffers, DataOf
  <2> QED
    BY Zenon, <2>1 DEF DecisionStep, Shape, DataShape
<1>3. sink'.durable \subseteq sink'.written
  BY ZenonT(40) DEF DecisionStep, Shape, DataShape
<1>4. DOMAIN units' \subseteq DOMAIN units
  BY Zenon DEF DecisionStep
<1>5. DataShape'
  BY Zenon, <1>2, <1>3, <1>4 DEF DecisionStep, Shape, DataShape, Broker
<1> QED
  BY Zenon, <1>1, <1>5

\* The commit raises: the cohort is forgotten and the run fails.
Abandons ==
    /\ Broker
    /\ buf' \in Buffers /\ buf'.records = buf.records /\ buf'.contributors = buf.contributors /\ buf'.completed = {}
    /\ UNCHANGED <<units, acct, sink, acked, ckpt>>
    /\ reader'.then = "failed"

\* What all outcomes of a decision share.
Decision ==
    /\ reader.at \in {"decide", "tail"} /\ lock = Free
    /\ reader'.at = "close" => reader.at = "tail"
    /\ reader'.unit = reader.unit
    /\ ~Nearing("file")' /\ ~Nearing("lastFile")'
    /\ \A i \in Items : Working(i)' <=> Working(i)
    /\ UNCHANGED <<cfg, src, queue, worker, lock, errors, stop, result, lost>>
    /\ Failing => Failing'

\* Settling a poll batch: nothing to decide, a decision, or an abandoned batch.
LEMMA DecideBrokersFacts ==
    ASSUME Shape, Control, DecideBrokers
    PROVE  /\ Decision /\ Shape' /\ Control'
           /\ \/ /\ ~Broker \/ buf.completed = {} \/ Held
                 /\ UNCHANGED <<buf, units, acct, sink, acked, ckpt>>
              \/ /\ Broker /\ ~Held
                 /\ \E ok, clean \in BOOLEAN : DecisionStep(ok, clean)
              \/ Abandons
<1>1. /\ reader.at \in {"decide", "tail"} /\ lock.by = "none"
      /\ UNCHANGED <<cfg, src, queue, worker, lock, errors, stop, result, lost>>
      /\ lost \in BOOLEAN /\ faults \in Nat /\ result \in {"running", "failed", "partial", "success"}
      /\ reader \in Readers /\ buf \in Buffers
  BY Zenon DEF DecideBrokers, Shape, ThreadShape, BufferShape
<1>2. /\ lock = Free /\ reader.then # "failed"
      /\ reader.at # "flushing" /\ reader.at # "chunk" /\ reader.at # "ended"
  <2>1. lock = Free /\ reader.then # "failed"
    BY Zenon, <1>1 DEF Control
  <2> QED
    BY Zenon, <1>1, <2>1
<1>3. ASSUME MovesTo(reader'), buf'.records = buf.records, buf'.contributors = buf.contributors,
             faults' \in Nat
      PROVE  ThreadShape' /\ Control'
  <2>1. Buffered' <=> Buffered
    BY Zenon, <1>3 DEF Buffered
  <2> QED
    BY Zenon, <1>1, <1>2, <1>3, <2>1, ReaderMoves
<1>4. ASSUME MovesTo(reader'), reader'.unit = reader.unit, reader'.at = "close" => reader.at = "tail",
             reader'.at # "join", ~Nearing("file")', ~Nearing("lastFile")'
      PROVE  Decision
  <2>1. reader'.at # "chunk"
    BY Zenon, <1>4 DEF MovesTo
  <2>2. \A i \in Items : Working(i)' <=> Working(i)
    BY Zenon, <1>1, <1>2, <2>1, SameWorkByReader
  <2>3. Failing => Failing'
    BY Zenon, <1>1, <1>2 DEF Failing
  <2> QED
    BY Zenon, <1>1, <1>2, <1>4, <2>2, <2>3 DEF Decision
<1>5. ASSUME reader' = Goto(After) PROVE MovesTo(reader') /\ Decision
  <2>1. MovesTo(reader')
    BY Zenon, <1>1, <1>5, DecidedMoves
  <2>2. PICK a : a = After
    OBVIOUS
  <2>3. a \in Places /\ (a = "next" \/ (a = "close" /\ reader.at = "tail"))
    BY Zenon, <1>1, <2>2 DEF After, Places
  <2>4. reader' = Goto(a)
    BY Zenon, <1>5, <2>2
  <2>5. /\ reader' \in Readers /\ reader'.at = a /\ reader'.then = reader.then
        /\ reader'.unit = reader.unit /\ reader'.item = reader.item
    BY Zenon, <1>1, <2>3, <2>4, GotoFacts
  <2>6. ~Nearing("file")' /\ ~Nearing("lastFile")' /\ reader'.at # "join" /\ (reader'.at = "close" => reader.at = "tail")
    BY Zenon, <2>3, <2>5 DEF Nearing
  <2> QED
    BY Zenon, <1>4, <2>1, <2>5, <2>6
<1>6. CASE /\ ~Broker \/ buf.completed = {} \/ Held
           /\ reader' = Goto(After)
           /\ UNCHANGED <<buf, units, acct, sink, acked, ckpt, faults>>
  <2>1. MovesTo(reader') /\ Decision
    BY Zenon, <1>5, <1>6
  <2>2. ThreadShape' /\ Control'
    BY Zenon, <1>1, <1>3, <1>6, <2>1
  <2>3. BufferShape' /\ DataShape'
    BY Zenon, <1>1, <1>6 DEF Shape, BufferShape, DataShape, Broker
  <2> QED
    BY Zenon, <1>6, <2>1, <2>2, <2>3 DEF Shape
<1>7. ASSUME Broker, ~Held, NEW ok \in BOOLEAN, NEW stored \in SUBSET Keys, NEW raised,
             Decide(ok, stored, raised), reader' = Goto(After)
      PROVE  /\ Decision /\ Shape' /\ Control'
             /\ \E o, clean \in BOOLEAN : DecisionStep(o, clean)
  <2>1. MovesTo(reader') /\ Decision
    BY Zenon, <1>5, <1>7
  <2>2. PICK clean \in BOOLEAN : DecisionStep(ok, clean)
    BY Zenon, <1>7, DecideFacts
  <2>3. /\ buf'.records = buf.records /\ buf'.contributors = buf.contributors
        /\ faults' \in Nat
    BY Zenon, <2>2 DEF DecisionStep
  <2>4. ThreadShape' /\ Control'
    BY Zenon, <1>3, <2>1, <2>3
  <2>5. BufferShape' /\ DataShape'
    BY Zenon, <1>1, <2>2, DecisionShape
  <2> QED
    BY Zenon, <2>1, <2>2, <2>4, <2>5 DEF Shape
<1>8. CASE /\ Broker
           /\ Fault
           /\ buf' = [buf EXCEPT !.completed = {}]
           /\ reader' = IF reader.at = "tail" THEN FlushThen("failed") ELSE Raise
           /\ UNCHANGED <<units, acct, sink, acked, ckpt>>
  <2>1. reader' = Raise \/ reader' = FlushThen("failed")
    BY Zenon, <1>8
  <2>2. MovesTo(reader')
    BY Zenon, <1>1, <1>2, <2>1, RaisedMoves
  <2>3. buf' \in Buffers /\ buf'.records = buf.records /\ buf'.contributors = buf.contributors /\ buf'.completed = {}
    BY Zenon, <1>1, <1>8 DEF Buffers
  <2>4. /\ reader'.unit = reader.unit /\ reader'.then = "failed" /\ reader'.at \in {"flush", "stopWorkers"}
    <3>1. CASE reader' = Raise
      <4>1. /\ reader' \in Readers /\ reader'.unit = reader.unit /\ reader'.item = reader.item
            /\ reader'.at = (IF Threaded THEN "stopWorkers" ELSE "flush") /\ reader'.then = "failed"
        BY Zenon, <1>1, <3>1, RaiseFacts
      <4> QED
        BY Zenon, <4>1
    <3>2. CASE reader' = FlushThen("failed")
      <4>1. /\ reader' \in Readers /\ reader'.at = "flush" /\ reader'.then = "failed"
            /\ reader'.unit = reader.unit /\ reader'.item = reader.item
        <5>1. "failed" \in Places
          BY Zenon DEF Places
        <5> QED
          BY Zenon, <1>1, <3>2, <5>1, FlushThenFacts
      <4> QED
        BY Zenon, <4>1
    <3> QED
      BY Zenon, <2>1, <3>1, <3>2
  <2>5. Decision
    <3>1. ~Nearing("file")' /\ ~Nearing("lastFile")' /\ reader'.at # "join" /\ reader'.at # "close"
      BY Zenon, <2>4 DEF Nearing
    <3> QED
      BY Zenon, <1>4, <2>2, <2>4, <3>1
  <2>6. ThreadShape' /\ Control'
    <3>1. faults' \in Nat
      BY <1>1, <1>8 DEF Fault
    <3> QED
      BY Zenon, <1>3, <2>2, <2>3, <3>1
  <2>7. BufferShape' /\ DataShape'
    BY Zenon, <1>1, <1>8, <2>3 DEF Shape, BufferShape, DataShape, Broker
  <2>8. Abandons
    BY Zenon, <1>8, <2>3, <2>4 DEF Abandons
  <2> QED
    BY Zenon, <2>5, <2>6, <2>7, <2>8 DEF Shape
<1>9. {} \in SUBSET Keys /\ TRUE \in BOOLEAN /\ FALSE \in BOOLEAN
  BY Zenon
<1>10. CASE Broker /\ ~Held /\ (\E stored \in SUBSET Keys, raised \in SUBSET buf.completed : Decide(TRUE, stored, raised)) /\ reader' = Goto(After)
  BY Zenon, <1>7, <1>9, <1>10
<1>11. CASE Broker /\ ~Held /\ Decide(FALSE, {}, {}) /\ reader' = Goto(After)
  BY Zenon, <1>7, <1>9, <1>11
<1> QED
  BY Zenon, <1>6, <1>8, <1>10, <1>11 DEF DecideBrokers

-----------------------------------------------------------------------------
(* A file is settled.                                                      *)

FileData(u) == {<<u[1], j>> : j \in 1..Chunks}

\* The file of the reader is finalized; ok: the sinks committed.
FileStep(ok) ==
    LET u == reader.unit
        d == Disposition(units[u])
    IN  /\ DOMAIN units' = DOMAIN units \ {u}
        /\ units' \in [DOMAIN units' -> Counts] /\ \A v \in DOMAIN units' : units'[v] = units[v]
        /\ acct' \in Accounts /\ (acct'.loss <=> acct.loss)
        /\ sink' \in Sinks /\ sink'.written = sink.written /\ Spared' = Spared
        /\ sink'.dlq = sink.dlq
        /\ sink'.durable = IF ok THEN sink.durable \union sink.written ELSE sink.durable
        /\ sink'.dropped = sink.dropped \/ (d = "dropped" /\ sink'.dropped = sink.dropped \union FileData(u))
        /\ \/ acked' = acked
           \/ /\ ok /\ acked' = acked \union FileData(u)
              /\ \/ cfg.src = "sftp"
                 \/ d # "undecided" /\ (d = "dropped" => FileData(u) \subseteq sink'.dropped)
        /\ ckpt' \in [Keys -> 0..Length]
        /\ reader'.unit = <<>>

\* The data of a file unit.
LEMMA FileDataFacts ==
    ASSUME NEW u \in FileUnits PROVE FileData(u) \subseteq Data /\ u[1] \in Keys
<1>1. u[1] \in Keys
  BY DEF FileUnits
<1>2. \A j \in 1..Chunks : j \in 1..Length
  BY StreamConstants DEF Chunks
<1>3. \A j \in 1..Chunks : <<u[1], j>> \in Data
  BY Zenon, <1>1, <1>2 DEF Data
<1> QED
  BY Zenon, <1>1, <1>3 DEF FileData

\* Finalizing the open file is a file step.
LEMMA FinalizeFacts ==
    ASSUME Shape, reader.unit \in FileUnits, NEW ok \in BOOLEAN, NEW stored \in BOOLEAN, NEW raised \in BOOLEAN,
           FinalizeFile(ok, stored, raised), reader'.unit = <<>>
    PROVE  FileStep(ok)
<1> DEFINE u == reader.unit
           d == Disposition(units[u])
<1>1. PICK data : data = FileData(u)
  OBVIOUS
<1>2. PICK may \in BOOLEAN : may <=> ok /\ (d = "delivered" /\ cfg.strict => stored)
  BY Zenon
<1>3. PICK acks \in BOOLEAN : acks <=> may /\ d # "undecided"
  BY Zenon
<1>4. PICK gone \in BOOLEAN : gone <=> IF cfg.src = "sftp" THEN ok ELSE acks
  BY Zenon
<1>5. /\ units' = Taken({u})
      /\ ckpt' = IF ok /\ stored /\ d = "delivered" THEN [ckpt EXCEPT ![u[1]] = 1] ELSE ckpt
      /\ acked' = IF gone THEN acked \union data ELSE acked
      /\ sink' = [Committed(ok) EXCEPT !.dropped = IF acks /\ d = "dropped" THEN @ \union data ELSE @]
      /\ acct' = [acct EXCEPT !.pending = @ \/ (ok /\ ~may)]
  BY Zenon, <1>1, <1>2, <1>3, <1>4 DEF FinalizeFile, FileData
<1>6. /\ units \in [DOMAIN units -> Counts] /\ acct \in Accounts /\ sink \in Sinks
      /\ ckpt \in [Keys -> 0..Length]
      /\ data \subseteq Data /\ u[1] \in Keys
  BY Zenon, <1>1, FileDataFacts DEF Shape, DataShape
<1>7. /\ DOMAIN units' = DOMAIN units \ {u}
      /\ units' \in [DOMAIN units' -> Counts] /\ \A v \in DOMAIN units' : units'[v] = units[v]
  <2>1. units' = [v \in DOMAIN units \ {u} |-> units[v]]
    BY Zenon, <1>5 DEF Taken
  <2> QED
    BY Zenon, <1>6, <2>1
<1>8. acct' \in Accounts /\ (acct'.loss <=> acct.loss)
  <2>1. PICK pend \in BOOLEAN : pend = (acct.pending \/ (ok /\ ~may))
    BY Zenon
  <2>2. acct' = [acct EXCEPT !.pending = pend]
    BY Zenon, <1>5, <2>1
  <2> QED
    BY Zenon, <1>6, <2>2 DEF Accounts
<1>9. PICK D : D = IF acks /\ d = "dropped" THEN sink.dropped \union data ELSE sink.dropped
  BY Zenon
<1>10. /\ sink' \in Sinks /\ sink'.written = sink.written /\ Spared' = Spared
       /\ sink'.dlq = sink.dlq
       /\ sink'.durable = IF ok THEN sink.durable \union sink.written ELSE sink.durable
       /\ sink'.dropped = D
  <2>1. PICK s : s = Committed(ok)
    OBVIOUS
  <2>2. /\ s \in Sinks /\ s.written = sink.written /\ s.filtered = sink.filtered /\ s.swallowed = sink.swallowed
        /\ s.dlq = sink.dlq /\ s.dropped = sink.dropped
        /\ s.durable = IF ok THEN sink.durable \union sink.written ELSE sink.durable
    BY Zenon, <1>6, <2>1 DEF Committed, Sinks
  <2>3. D \subseteq Data
    BY Zenon, <1>6, <1>9 DEF Sinks
  <2>4. sink' = [s EXCEPT !.dropped = D]
    BY Zenon, <1>5, <1>9, <2>1, <2>2
  <2>5. /\ sink' \in Sinks /\ sink'.written = s.written /\ sink'.filtered = s.filtered /\ sink'.swallowed = s.swallowed
        /\ sink'.dlq = s.dlq /\ sink'.dropped = D /\ sink'.durable = s.durable
    BY Zenon, <2>2, <2>3, <2>4 DEF Sinks
  <2> QED
    BY Zenon, <2>2, <2>5 DEF Spared
<1>11. ckpt' \in [Keys -> 0..Length]
  <2>1. 1 \in 0..Length
    BY StreamConstants
  <2> QED
    BY Zenon, <1>5, <1>6, <2>1
<1>12. sink'.dropped = sink.dropped \/ (d = "dropped" /\ sink'.dropped = sink.dropped \union data)
  BY Zenon, <1>9, <1>10
<1>13. \/ acked' = acked
       \/ /\ ok /\ acked' = acked \union data
          /\ \/ cfg.src = "sftp"
             \/ d # "undecided" /\ (d = "dropped" => data \subseteq sink'.dropped)
  BY Zenon, <1>2, <1>3, <1>4, <1>5, <1>9, <1>10
<1> QED
  BY Zenon, <1>1, <1>7, <1>8, <1>10, <1>11, <1>12, <1>13 DEF FileStep

\* What both outcomes of the finalization share.
Finalization ==
    /\ reader.at \in {"file", "lastFile"} /\ reader.unit \in FileUnits
    /\ reader'.at # "close" /\ ~Nearing("file")' /\ ~Nearing("lastFile")'
    /\ \A i \in Items : Working(i)' <=> Working(i)
    /\ UNCHANGED <<cfg, src, queue, worker, lock, buf, errors, stop, result, lost>>
    /\ Failing => Failing'

\* Settling a file: a file step, or an exception that leaves it open.
LEMMA SettleFileFacts ==
    ASSUME Shape, Control, Files, SettleFile
    PROVE  /\ Finalization /\ Shape' /\ Control'
           /\ \/ (\E ok \in BOOLEAN : FileStep(ok))
              \/ UNCHANGED <<units, acct, sink, acked, ckpt>> /\ reader'.then = "failed" /\ reader'.unit = reader.unit
<1>1. /\ reader.at \in {"file", "lastFile"}
      /\ UNCHANGED <<cfg, src, queue, worker, lock, buf, errors, stop, result, lost>>
      /\ lost \in BOOLEAN /\ faults \in Nat /\ result \in {"running", "failed", "partial", "success"}
      /\ reader \in Readers
  BY Zenon DEF SettleFile, Shape, ThreadShape
<1>2. PICK ok \in BOOLEAN, stored \in BOOLEAN, raised \in BOOLEAN :
        /\ IF ok /\ stored /\ ~raised THEN UNCHANGED faults ELSE Fault
        /\ IF ~ok /\ cfg.onError # "continue"
           THEN reader' = Raise /\ UNCHANGED <<units, acct, sink, acked, ckpt>>
           ELSE /\ FinalizeFile(ok, stored, raised)
                /\ reader' = [reader EXCEPT !.unit = <<>>,
                        !.at = IF reader.at = "file" THEN "next" ELSE IF Threaded THEN "stopWorkers" ELSE "flush",
                        !.then = "tail"]
  BY Zenon DEF SettleFile
<1>3. faults' \in Nat
  BY <1>1, <1>2 DEF Fault
<1>4. /\ reader.unit \in FileUnits /\ reader.then # "failed" /\ reader.at # "chunk" /\ reader.at # "ended"
      /\ reader.at # "flushing"
  <2>1. reader.unit # <<>>
    BY Zenon, <1>1 DEF Files, Nearing
  <2>2. reader.then # "failed"
    BY Zenon, <1>1 DEF Control
  <2> QED
    BY Zenon, <1>1, <2>1, <2>2 DEF Readers
<1>5. ASSUME MovesTo(reader'), reader'.at \in {"next", "stopWorkers", "flush"}, reader'.then \in {"tail", "failed"}
      PROVE  Finalization /\ ThreadShape' /\ Control'
  <2>1. \A i \in Items : Working(i)' <=> Working(i)
    BY Zenon, <1>1, <1>4, <1>5, SameWorkByReader
  <2>2. ~Nearing("file")' /\ ~Nearing("lastFile")' /\ reader'.at # "close"
    BY Zenon, <1>5 DEF Nearing
  <2>3. Failing => Failing'
    BY Zenon, <1>1, <1>4 DEF Failing
  <2>4. Buffered' <=> Buffered
    BY Zenon, <1>1 DEF Buffered
  <2>5. ThreadShape' /\ Control'
    BY Zenon, <1>1, <1>3, <1>4, <1>5, <2>4, ReaderMoves
  <2> QED
    BY Zenon, <1>1, <1>4, <2>1, <2>2, <2>3, <2>5 DEF Finalization
<1>6. CASE reader' = Raise /\ UNCHANGED <<units, acct, sink, acked, ckpt>>
  <2>1. /\ reader' \in Readers /\ reader'.unit = reader.unit /\ reader'.item = reader.item
        /\ reader'.at = (IF Threaded THEN "stopWorkers" ELSE "flush") /\ reader'.then = "failed"
    BY Zenon, <1>1, <1>6, RaiseFacts
  <2>2. MovesTo(reader')
    BY Zenon, <1>1, <1>4, <1>6, RaisedMoves
  <2>3. Finalization /\ ThreadShape' /\ Control'
    <3>1. reader'.at \in {"next", "stopWorkers", "flush"} /\ reader'.then \in {"tail", "failed"}
      BY Zenon, <2>1
    <3> QED
      BY Zenon, <1>5, <2>2, <3>1
  <2>4. BufferShape' /\ DataShape'
    BY Zenon, <1>1, <1>6 DEF Shape, BufferShape, DataShape, Broker
  <2> QED
    BY Zenon, <1>6, <2>1, <2>3, <2>4 DEF Shape
<1>7. CASE /\ FinalizeFile(ok, stored, raised)
           /\ reader' = [reader EXCEPT !.unit = <<>>,
                        !.at = IF reader.at = "file" THEN "next" ELSE IF Threaded THEN "stopWorkers" ELSE "flush",
                        !.then = "tail"]
  <2>1. MovesTo(reader') /\ reader'.unit = <<>> /\ reader'.then = "tail" /\ reader'.at \in {"next", "stopWorkers", "flush"}
    BY Zenon, <1>1, <1>7, SettledMoves
  <2>2. FileStep(ok)
    BY Zenon, <1>4, <1>7, <2>1, FinalizeFacts
  <2>3. Finalization /\ ThreadShape' /\ Control'
    BY Zenon, <1>5, <2>1
  <2>4. BufferShape'
    BY Zenon, <1>1 DEF Shape, BufferShape, Broker
  <2>5. DataShape'
    <3>1. acked' \subseteq Data
      <4>1. FileData(reader.unit) \subseteq Data
        BY Zenon, <1>4, FileDataFacts
      <4> QED
        BY Zenon, <2>2, <4>1 DEF FileStep, Shape, DataShape
    <3>2. sink'.durable \subseteq sink'.written
      BY Zenon, <2>2 DEF FileStep, Shape, DataShape
    <3>3. DOMAIN units' \subseteq DOMAIN units
      BY Zenon, <2>2 DEF FileStep
    <3> QED
      BY Zenon, <1>1, <2>2, <3>1, <3>2, <3>3 DEF FileStep, Shape, DataShape, Broker
  <2> QED
    BY Zenon, <2>2, <2>3, <2>4, <2>5 DEF Shape
<1> QED
  BY Zenon, <1>2, <1>6, <1>7

-----------------------------------------------------------------------------
(* Steps that move no data keep what is said of it.                        *)

\* A step that changes no data keeps what is buffered and being flushed, together.
LEMMA SteadyBuffer ==
    ASSUME Shape, Control, Steady
    PROVE  /\ Contributors' = Contributors /\ Records' = Records /\ buf'.completed = buf.completed
           /\ \/ UNCHANGED <<buf, lock>>
              \/ /\ buf'.contributors = {} /\ lock'.contributors = buf.contributors
                 /\ lock'.records = buf.records
<1>1. CASE UNCHANGED <<buf, lock>>
  BY Zenon, <1>1 DEF Contributors, Records
<1>2. CASE Drains
  <2>1. PICK t \in Workers \union {"reader", "flusher"} : lock' = Drained(t)
    BY Zenon, <1>2 DEF Drains
  <2>2. /\ buf'.records = {} /\ buf'.contributors = {} /\ buf'.completed = buf.completed
    BY Zenon, <1>2 DEF Drains, Shape, BufferShape, Buffers, Undrained
  <2>3. /\ lock'.records = buf.records /\ lock'.contributors = buf.contributors
    BY Zenon, <2>1 DEF Drained
  <2>4. lock.records = {} /\ lock.contributors = {}
    <3>1. lock = Free
      BY Zenon, <1>2 DEF Drains, Control
    <3> QED
      BY Zenon, <3>1 DEF Free
  <2> QED
    BY Zenon, <2>2, <2>3, <2>4 DEF Contributors, Records
<1> QED
  BY Zenon, <1>1, <1>2 DEF Steady

\* A step that changes no data keeps Fresh.
LEMMA SteadyFresh == ASSUME Shape, Control, Steady, Fresh PROVE Fresh'
<1>1. /\ Contributors' = Contributors /\ buf'.completed = buf.completed
      /\ UNCHANGED <<cfg, src, units>>
      /\ \A i \in Items : Working(i)' <=> Working(i)
  BY Zenon, SteadyBuffer DEF Steady
<1>2. \A u \in Items : Seen(u)' => Seen(u)
  BY Zenon, <1>1 DEF Seen, Contributes
<1>3. Broker' <=> Broker
  BY Zenon, <1>1 DEF Broker
<1> QED
  BY Zenon, <1>1, <1>2, <1>3 DEF Fresh

\* A step that changes no data keeps what the counts of the units say.
LEMMA SteadyUnits == ASSUME Shape, Control, Steady, BrokerUnits, Losses PROVE BrokerUnits' /\ Losses'
<1>1. /\ Contributors' = Contributors /\ buf'.completed = buf.completed
      /\ UNCHANGED <<cfg, units, sink, acct>>
      /\ \/ UNCHANGED <<buf, lock>>
         \/ /\ buf'.contributors = {} /\ lock'.contributors = buf.contributors
            /\ lock'.records = buf.records
  BY Zenon, SteadyBuffer DEF Steady
<1>2. /\ \A u : Good(u)' <=> Good(u)
      /\ \A u : Excused(u)' <=> Excused(u)
      /\ Broker' <=> Broker
  BY Zenon, <1>1 DEF Good, Excused, Broker, Spared
<1>3. Losses'
  BY Zenon, <1>1 DEF Losses
<1>4. ASSUME Broker
      PROVE  /\ \A x \in buf'.contributors : x[2] => x[1] \in buf'.records
             /\ \A x \in lock'.contributors : x[2] => x[1] \in lock'.records
  BY Zenon, <1>1, <1>4 DEF BrokerUnits
<1> QED
  BY Zenon, <1>1, <1>2, <1>3, <1>4 DEF BrokerUnits

\* A step that changes no data keeps WholeFiles.
LEMMA SteadyFiles == ASSUME Shape, Control, Steady, WholeFiles PROVE WholeFiles'
<1>1. /\ Records' = Records
      /\ UNCHANGED <<cfg, src, units, sink>>
      /\ \A i \in Items : Working(i)' <=> Working(i)
  BY Zenon, SteadyBuffer DEF Steady
<1>2. /\ Broker' <=> Broker
      /\ Handled' = Handled
  BY Zenon, <1>1 DEF Broker, Handled, Spared
<1> QED
  BY Zenon, <1>1, <1>2 DEF WholeFiles

\* A step that changes no data keeps the conjuncts about positions and settled data.
LEMMA SteadyCoverage ==
    ASSUME Shape, Control, Steady, Coverage, Located, AcksSettled, CheckpointAccounted
    PROVE  Coverage' /\ Located' /\ AcksSettled' /\ CheckpointAccounted'
<1>1. /\ Contributors' = Contributors /\ buf'.completed = buf.completed
      /\ UNCHANGED <<cfg, src, units, acct, sink, acked, ckpt>>
      /\ \A i \in Items : Working(i)' <=> Working(i)
      /\ lost => lost'
      /\ Failing => Failing'
  BY Zenon, SteadyBuffer DEF Steady
<1>2. /\ Broker' <=> Broker
      /\ Accounted' = Accounted
      /\ \A d : HasUnit(d)' <=> HasUnit(d)
      /\ \A u : Contributes(u)' <=> Contributes(u)
  BY Zenon, <1>1 DEF Broker, Accounted, HasUnit, Contributes, Spared
<1>3. \A p, o : Covered(p, o)' <=> Covered(p, o)
  BY Zenon, <1>1, <1>2 DEF Covered
<1>4. Coverage'
  BY Zenon, <1>1, <1>2, <1>3 DEF Coverage
<1>5. Located'
  <2>1. Broker => DOMAIN units \subseteq Items
    BY Zenon DEF Shape, DataShape
  <2> QED
    BY Zenon, <1>1, <1>2, <2>1 DEF Located
<1>6. AcksSettled'
  BY Zenon, <1>1, <1>2 DEF AcksSettled
<1>7. CheckpointAccounted'
  BY Zenon, <1>1, <1>2 DEF CheckpointAccounted
<1> QED
  BY Zenon, <1>4, <1>5, <1>6, <1>7

\* A step that changes no data keeps ChunkedFiles, if it reaches a file's end only after its last chunk.
LEMMA SteadyChunks ==
    ASSUME Shape, Control, Steady, ChunkedFiles,
           cfg.src = "sftp" /\ Nearing("file")' => \A x \in src.batch : x[1] # reader.unit[1],
           cfg.src = "sftp" /\ Nearing("lastFile")' => src.batch = {}
    PROVE  ChunkedFiles'
<1>1. /\ Records' = Records
      /\ UNCHANGED <<cfg, src, acct, sink>>
      /\ \A i \in Items : Working(i)' <=> Working(i)
      /\ lost => lost'
      /\ Failing => Failing'
      /\ reader'.unit = reader.unit
  BY Zenon, SteadyBuffer DEF Steady
<1>2. Handled' = Handled
  BY Zenon, <1>1 DEF Handled, Spared
<1> SUFFICES ASSUME cfg.src = "sftp" PROVE ChunkedFiles'
  BY Zenon, <1>1 DEF ChunkedFiles
<1>3. /\ \A x \in src'.batch : x[3] = 0 /\ (reader'.unit # <<>> => reader'.unit[1] <= x[1])
      /\ \A x \in src'.batch : reader'.unit = <<>> \/ x[1] # reader'.unit[1] =>
            \A i \in Items : i[1] = x[1] /\ i[3] = 0 => i \in src'.batch
  BY Zenon, <1>1 DEF ChunkedFiles
<1>4. \A i \in Items : Somewhere(i)' <=> Somewhere(i)
  BY Zenon, <1>1, <1>2 DEF Somewhere
<1>5. reader'.unit # <<>> /\ ~acct'.loss /\ ~lost' /\ ~Failing' =>
            \A i \in Items : i[1] = reader'.unit[1] /\ i[3] = 0 => Somewhere(i)'
  BY Zenon, <1>1, <1>4 DEF ChunkedFiles
<1>6. /\ Nearing("file")' => \A x \in src'.batch : x[1] # reader'.unit[1]
      /\ Nearing("lastFile")' => src'.batch = {}
  BY Zenon, <1>1
<1> QED
  BY Zenon, <1>3, <1>5, <1>6 DEF ChunkedFiles

\* A step that changes no data keeps Outstanding, if it closes only with every unit decided.
LEMMA SteadyOutstanding ==
    ASSUME Shape, Control, Steady, Outstanding, Files, reader'.at = "close" => DOMAIN units = {} \/ lost \/ ~Broker,
           \A f \in {"file", "lastFile"} : Nearing(f)' => reader.unit # <<>>
    PROVE  Outstanding' /\ Files'
<1>1. /\ UNCHANGED <<cfg, src, units, acct, acked>>
      /\ reader'.unit = reader.unit
      /\ lost => lost'
  BY Zenon DEF Steady
<1>2. /\ Broker' <=> Broker
      /\ \A d : HasUnit(d)' <=> HasUnit(d)
  BY Zenon, <1>1 DEF Broker, HasUnit
<1> QED
  BY Zenon, <1>1, <1>2 DEF Outstanding, Files

\* A steady step that goes no further than before.
LEMMA SteadyKeeps ==
    ASSUME Inv, Steady, Lingers, ThreadShape', Control', UNCHANGED result
    PROVE  Inv'
<1>1. Shape' /\ Shape /\ Control
  BY Zenon, SteadyShape DEF Inv
<1>2. Fresh' /\ BrokerUnits' /\ Losses' /\ WholeFiles'
  BY Zenon, <1>1, SteadyFresh, SteadyUnits, SteadyFiles DEF Inv
<1>3. Coverage' /\ Located' /\ AcksSettled' /\ CheckpointAccounted'
  BY Zenon, <1>1, SteadyCoverage DEF Inv
<1>4. ChunkedFiles'
  BY Zenon, <1>1, SteadyChunks DEF Inv, Lingers, ChunkedFiles
<1>5. Outstanding' /\ Files'
  <2>1. reader'.at = "close" => DOMAIN units = {} \/ lost \/ ~Broker
    BY Zenon DEF Inv, Lingers, Outstanding
  <2>2. \A f \in {"file", "lastFile"} : Nearing(f)' => reader.unit # <<>>
    BY Zenon DEF Inv, Lingers, Files
  <2> QED
    BY Zenon, <1>1, <2>1, <2>2, SteadyOutstanding DEF Inv
<1>6. SuccessAccounted'
  BY Zenon DEF Inv, Steady, SuccessAccounted, Broker
<1> QED
  BY Zenon, <1>1, <1>2, <1>3, <1>4, <1>5, <1>6 DEF Inv

\* Leaving the loop keeps the invariant.
LEMMA LeaveLoopInv == ASSUME Inv, LeaveLoop PROVE Inv'
<1>1. Shape /\ Control /\ reader \in Readers /\ reader' = (IF Threaded /\ errors THEN Raise ELSE Leave(TRUE)) /\ result' = result
  BY Zenon DEF Inv, LeaveLoop, Shape, ThreadShape
<1>2. /\ reader'.unit = reader.unit
      /\ reader'.then \in {"failed", "tail"} /\ reader'.at \in {"stopWorkers", "flush"}
  BY Zenon, <1>1, LeaveFacts, RaiseFacts
<1>3. Lingers
  BY Zenon, <1>2 DEF Lingers, Nearing
<1>4. Steady
  BY Zenon, <1>1, LeaveLoopSteady
<1>5. ThreadShape' /\ Control'
  BY Zenon, <1>1, LeaveLoopControl
<1> QED
  BY Zenon, <1>1, <1>3, <1>4, <1>5, SteadyKeeps

\* chunk_q.join keeps the invariant.
LEMMA JoinInv == ASSUME Inv, Join PROVE Inv'
<1>1. /\ Shape /\ Control /\ reader \in Readers /\ reader.then \in Places /\ result' = result
      /\ reader.at = "join" /\ reader' = IF errors THEN Raise ELSE FlushThen(reader.then)
  BY Zenon DEF Inv, Join, Shape, ThreadShape, Readers
<1>2. /\ reader'.unit = reader.unit
      /\ reader'.then = "failed" \/ reader'.then = reader.then
      /\ reader'.at \in {"stopWorkers", "flush"}
  BY Zenon, <1>1, FlushThenFacts, RaiseFacts
<1>3. Lingers
  BY Zenon, <1>1, <1>2 DEF Lingers, Nearing
<1>4. Steady
  BY Zenon, <1>1, JoinSteady
<1>5. ThreadShape' /\ Control'
  BY Zenon, <1>1, JoinControl
<1> QED
  BY Zenon, <1>1, <1>3, <1>4, <1>5, SteadyKeeps

\* Stopping the workers keeps the invariant.
LEMMA StopWorkersInv == ASSUME Inv, StopWorkers PROVE Inv'
<1>1. /\ Shape /\ Control /\ reader \in Readers /\ reader.then \in {"tail", "failed"} /\ result' = result
      /\ reader.at = "stopWorkers" /\ reader' = FlushThen(IF errors THEN "failed" ELSE reader.then)
  BY Zenon DEF Inv, StopWorkers, Shape, ThreadShape, Control
<1>2. PICK t \in {"tail", "failed"} : reader' = FlushThen(t)
  BY Zenon, <1>1
<1>3. /\ reader' \in Readers /\ reader'.at = "flush" /\ reader'.then = t
      /\ reader'.unit = reader.unit /\ reader'.item = reader.item
  <2>1. t \in Places
    BY Zenon DEF Places
  <2> QED
    BY Zenon, <1>1, <1>2, <2>1, FlushThenFacts
<1>4. Lingers
  BY Zenon, <1>3 DEF Lingers, Nearing
<1>5. Steady
  BY Zenon, <1>1, StopWorkersSteady
<1>6. ThreadShape' /\ Control'
  BY Zenon, <1>1, StopWorkersControl
<1> QED
  BY Zenon, <1>1, <1>4, <1>5, <1>6, SteadyKeeps

\* A stop request keeps the invariant.
LEMMA RequestStopInv == ASSUME Inv, RequestStop PROVE Inv'
<1>1. Shape /\ Control /\ reader' = reader /\ result' = result
  BY Zenon DEF Inv, RequestStop
<1>2. Steady
  BY Zenon, <1>1, RequestStopSteady
<1>3. ThreadShape' /\ Control'
  BY Zenon, <1>1, RequestStopControl
<1> QED
  BY Zenon, <1>1, <1>2, <1>3, StandsStill, SteadyKeeps

\* The flusher's wake-up keeps the invariant.
LEMMA FlusherWakesInv == ASSUME Inv, FlusherWakes PROVE Inv'
<1>1. Shape /\ Control /\ reader' = reader /\ result' = result
  BY Zenon DEF Inv, FlusherWakes
<1>2. Steady
  BY Zenon, <1>1, FlusherWakesSteady
<1>3. ThreadShape' /\ Control'
  BY Zenon, <1>1, FlusherWakesControl
<1> QED
  BY Zenon, <1>1, <1>2, <1>3, StandsStill, SteadyKeeps

\* A worker's get keeps the invariant.
LEMMA WorkerTakesInv == ASSUME Inv, NEW w \in Workers, WorkerTakes(w) PROVE Inv'
<1>1. Shape /\ Control /\ reader' = reader /\ result' = result
  BY Zenon DEF Inv, WorkerTakes
<1>2. Steady
  BY Zenon, <1>1, WorkerTakesSteady
<1>3. ThreadShape' /\ Control'
  BY Zenon, <1>1, WorkerTakesControl
<1> QED
  BY Zenon, <1>1, <1>2, <1>3, StandsStill, SteadyKeeps

\* The start of a worker's flush keeps the invariant.
LEMMA WorkerFlushInv == ASSUME Inv, NEW w \in Workers, WorkerFlush(w) PROVE Inv'
<1>1. Shape /\ Control /\ reader' = reader /\ result' = result
  BY Zenon DEF Inv, WorkerFlush
<1>2. Steady
  BY Zenon, <1>1, WorkerFlushSteady
<1>3. ThreadShape' /\ Control'
  BY Zenon, <1>1, WorkerFlushControl
<1> QED
  BY Zenon, <1>1, <1>2, <1>3, StandsStill, SteadyKeeps

\* The start of the reader's flush keeps the invariant.
LEMMA ReaderFlushInv == ASSUME Inv, ReaderFlush PROVE Inv'
<1>1. /\ Shape /\ Control /\ reader \in Readers /\ reader.then \in Places /\ "flushing" \in Places
      /\ reader.then \in {"next", "decide", "tail", "file", "lastFile", "failed"}
      /\ reader.at = "flush" /\ (reader' = Goto("flushing") \/ reader' = Goto(reader.then)) /\ result' = result
  BY Zenon DEF Inv, ReaderFlush, Shape, ThreadShape, Readers, Places, Control
<1>2. PICK a \in Places : reader' = Goto(a) /\ (a = "flushing" \/ a = reader.then)
  BY Zenon, <1>1
<1>3. /\ reader' \in Readers /\ reader'.at = a /\ reader'.then = reader.then
      /\ reader'.unit = reader.unit /\ reader'.item = reader.item
  BY Zenon, <1>1, <1>2, GotoFacts
<1>4. reader'.at # "close" /\ reader'.at # "join"
  BY Zenon, <1>1, <1>2, <1>3
<1>5. Lingers
  BY Zenon, <1>1, <1>2, <1>3, <1>4 DEF Lingers, Nearing
<1>6. Steady
  BY Zenon, <1>1, ReaderFlushSteady
<1>7. ThreadShape' /\ Control'
  BY Zenon, <1>1, ReaderFlushControl
<1> QED
  BY Zenon, <1>1, <1>5, <1>6, <1>7, SteadyKeeps

\* A steady step of the reader to another place.
LEMMA SteadyMoves ==
    ASSUME Inv, Steady, ThreadShape', Control',
           cfg.src = "sftp" /\ Nearing("file")' => \A x \in src.batch : x[1] # reader.unit[1],
           cfg.src = "sftp" /\ Nearing("lastFile")' => src.batch = {},
           \A f \in {"file", "lastFile"} : Nearing(f)' => reader.unit # <<>>,
           reader'.at = "close" => DOMAIN units = {} \/ lost \/ ~Broker,
           SuccessAccounted'
    PROVE  Inv'
<1>1. Shape' /\ Shape /\ Control
  BY Zenon, SteadyShape DEF Inv
<1>2. Fresh' /\ BrokerUnits' /\ Losses' /\ WholeFiles'
  BY Zenon, <1>1, SteadyFresh, SteadyUnits, SteadyFiles DEF Inv
<1>3. Coverage' /\ Located' /\ AcksSettled' /\ CheckpointAccounted'
  BY Zenon, <1>1, SteadyCoverage DEF Inv
<1>4. ChunkedFiles'
  BY Zenon, <1>1, SteadyChunks DEF Inv
<1>5. Outstanding' /\ Files'
  BY Zenon, <1>1, SteadyOutstanding DEF Inv
<1> QED
  BY Zenon, <1>1, <1>2, <1>3, <1>4, <1>5 DEF Inv

\* A step that changes neither data nor the result keeps SuccessAccounted.
LEMMA SameSuccess == ASSUME Inv, Steady, UNCHANGED result PROVE SuccessAccounted'
BY Zenon DEF Inv, Steady, SuccessAccounted, Broker

\* The end of the source keeps the invariant.
LEMMA SourceEndsInv == ASSUME Inv, SourceEnds PROVE Inv'
<1>1. /\ Shape /\ Control /\ reader \in Readers /\ reader' = Leave(FALSE) /\ result' = result
      /\ src.batch = {}
  BY Zenon DEF Inv, SourceEnds, Shape, ThreadShape
<1>2. \/ reader.unit # <<>> /\ reader'.then = "lastFile" /\ reader'.at \in {"join", "flush"}
      \/ reader'.then = "tail" /\ reader'.at \in {"stopWorkers", "flush"}
  <2>1. CASE reader.unit # <<>>
    BY Zenon, <1>1, <2>1, LeaveFacts
  <2>2. CASE reader.unit = <<>>
    <3>1. reader' = LET r == [reader EXCEPT !.stopped = FALSE] IN
                    IF Threaded THEN [r EXCEPT !.at = "stopWorkers", !.then = "tail"]
                    ELSE [r EXCEPT !.at = "flush", !.then = "tail"]
      BY Zenon, <1>1, <2>2 DEF Leave
    <3>2. PICK r : r = [reader EXCEPT !.stopped = FALSE]
      BY Zenon
    <3>3. r \in Readers
      BY Zenon, <1>1, <3>2 DEF Readers
    <3>4. reader' = IF Threaded THEN [r EXCEPT !.at = "stopWorkers", !.then = "tail"]
                    ELSE [r EXCEPT !.at = "flush", !.then = "tail"]
      BY Zenon, <3>1, <3>2
    <3> QED
      BY Zenon, <3>3, <3>4 DEF Readers
  <2> QED
    BY Zenon, <2>1, <2>2
<1>3. /\ ~Nearing("file")' /\ reader'.at # "close"
      /\ Nearing("lastFile")' => reader.unit # <<>>
  BY Zenon, <1>2 DEF Nearing
<1>4. Steady
  BY Zenon, <1>1, SourceEndsSteady
<1>5. ThreadShape' /\ Control'
  BY Zenon, <1>1, SourceEndsControl
<1>6. SuccessAccounted'
  BY Zenon, <1>1, <1>4, SameSuccess
<1> QED
  BY Zenon, <1>1, <1>3, <1>4, <1>5, <1>6, SteadyMoves

\* The boundary between two files keeps the invariant.
LEMMA NextFileInv == ASSUME Inv, NextFile PROVE Inv'
<1>1. /\ Shape /\ Control /\ reader \in Readers /\ result' = result
      /\ reader' = [reader EXCEPT !.at = IF Threaded THEN "join" ELSE "flush", !.then = "file"]
  BY Zenon DEF Inv, NextFile, Shape, ThreadShape
<1>2. reader'.then = "file" /\ reader'.at \in {"join", "flush"}
  BY Zenon, <1>1 DEF Readers
<1>3. PICK i \in src.batch : Yields(i) /\ Boundary(i)
  BY Zenon DEF NextFile
<1>4. /\ reader.unit # <<>> /\ reader.unit # UnitOf(i) /\ ~Broker
      /\ \A x \in src.batch : ~Before(x, i)
      /\ src.batch \subseteq Items
  BY Zenon, <1>1, <1>3 DEF Boundary, Yields, Shape, DataShape, Sources
<1>5. ASSUME cfg.src = "sftp", NEW x \in src.batch, x[1] = reader.unit[1] PROVE FALSE
  <2>1. reader.unit[1] <= i[1]
    BY Zenon, <1>4, <1>5 DEF Inv, ChunkedFiles
  <2>2. ~(x[1] < i[1])
    BY Zenon, <1>4 DEF Before
  <2>3. x[1] \in Nat /\ i[1] \in Nat
    BY Zenon, <1>3, <1>4, ItemFacts, StreamConstants
  <2>4. i[1] = reader.unit[1]
    BY <1>5, <2>1, <2>2, <2>3
  <2>5. reader.unit \in FileUnits
    BY Zenon, <1>1, <1>4 DEF Readers
  <2>6. reader.unit = <<reader.unit[1], 0, 0>>
    BY <2>5 DEF FileUnits
  <2>7. UnitOf(i) = <<i[1], 0, 0>>
    BY Zenon, <1>4 DEF UnitOf
  <2> QED
    BY Zenon, <1>4, <2>4, <2>6, <2>7
<1>6. ~Nearing("lastFile")' /\ reader'.at # "close"
  BY Zenon, <1>2 DEF Nearing
<1>7. Steady
  BY Zenon, <1>1, NextFileSteady
<1>8. ThreadShape' /\ Control'
  BY Zenon, <1>1, NextFileControl
<1>9. SuccessAccounted'
  BY Zenon, <1>1, <1>7, SameSuccess
<1> QED
  BY Zenon, <1>4, <1>5, <1>6, <1>7, <1>8, <1>9, SteadyMoves

\* The run ends; a successful one has acknowledged what it took.
LEMMA EndRunInv == ASSUME Inv, EndRun PROVE Inv'
<1>1. /\ Shape /\ Control /\ reader \in Readers /\ reader.at \in {"close", "failed"} /\ "ended" \in Places
      /\ reader' = Goto("ended") /\ result' = IF reader.at = "failed" THEN "failed" ELSE Outcomes
      /\ UNCHANGED <<cfg, src, acct, acked, sink, lost>>
  BY Zenon DEF Inv, EndRun, Shape, ThreadShape, Places
<1>2. Steady
  BY Zenon, <1>1, EndRunSteady
<1>3. ThreadShape' /\ Control'
  BY Zenon, <1>1, EndRunControl
<1>4. /\ reader' \in Readers /\ reader'.at = "ended" /\ reader'.then = reader.then
      /\ reader'.unit = reader.unit /\ reader'.item = reader.item
  BY Zenon, <1>1, GotoFacts
<1>5. ~Nearing("file")' /\ ~Nearing("lastFile")'
  BY Zenon, <1>4 DEF Nearing
<1>6. SuccessAccounted'
  <2> SUFFICES ASSUME result' = "success", Broker, ~lost
               PROVE  /\ {d \in Data : d[2] <= src.position[d[1]]} \ DataOf(src.batch) \subseteq acked
                      /\ sink.dropped = {}
    BY Zenon, <1>1 DEF SuccessAccounted, Broker
  <2>1. /\ reader.at = "close" /\ ~acct.pending
        /\ ~(cfg.onError = "continue" /\ acct.loss)
    BY Zenon, <1>1 DEF Outcomes
  <2>2. DOMAIN units = {}
    BY Zenon, <2>1 DEF Inv, Outstanding
  <2>3. ASSUME NEW d \in Data, d[2] <= src.position[d[1]], d \notin DataOf(src.batch) PROVE d \in acked
    <3>1. d \in acked \/ <<d[1], d[2], src.epoch>> \in src.batch
      BY Zenon, <2>1, <2>2, <2>3 DEF Inv, Outstanding, HasUnit
    <3>2. d = <<d[1], d[2]>>
      BY DEF Data
    <3>3. PICK i : i = <<d[1], d[2], src.epoch>>
      BY Zenon
    <3>4. Datum(i) = d
      <4>1. i[1] = d[1] /\ i[2] = d[2]
        BY <3>3
      <4> QED
        BY Zenon, <3>2, <4>1 DEF Datum
    <3> QED
      BY Zenon, <2>3, <3>1, <3>3, <3>4 DEF DataOf
  <2>4. sink.dropped = {}
    BY Zenon, <2>1 DEF Inv, Losses
  <2> QED
    BY Zenon, <2>3, <2>4
<1> QED
  BY Zenon, <1>2, <1>3, <1>4, <1>5, <1>6, SteadyMoves

-----------------------------------------------------------------------------
(* The source.                                                             *)

\* A step of a broker source alone.
SourceMoves ==
    /\ Broker /\ reader.at = "next" /\ src.batch = {} /\ src' \in Sources
    /\ UNCHANGED <<cfg, reader, queue, worker, lock, buf, units, acct, sink, acked, ckpt, errors,
                   result, lost>>

\* A step of the source alone keeps the invariant, given the conjuncts it can disturb.
LEMMA SourceMovesInv ==
    ASSUME Inv, SourceMoves, ThreadShape', Control', Fresh', Coverage', Outstanding' PROVE Inv'
<1>1. /\ Broker /\ Broker' /\ src' \in Sources
      /\ UNCHANGED <<cfg, reader, queue, worker, lock, buf, units, acct, sink, acked, ckpt, errors,
                   result, lost>>
  BY Zenon DEF SourceMoves, Broker
<1>2. Shape'
  <2>1. BufferShape'
    BY Zenon, <1>1 DEF Inv, Shape, BufferShape
  <2>2. DataShape'
    BY Zenon, <1>1 DEF Inv, Shape, DataShape
  <2> QED
    BY Zenon, <2>1, <2>2 DEF Shape
<1>3. BrokerUnits' /\ Losses'
  <2>1. /\ \A u : Good(u)' <=> Good(u)
        /\ \A u : Excused(u)' <=> Excused(u)
        /\ Contributors' = Contributors
    BY Zenon, <1>1 DEF Good, Excused, Contributors, Spared
  <2> QED
    BY Zenon, <1>1, <2>1 DEF Inv, BrokerUnits, Losses
<1>4. WholeFiles' /\ ChunkedFiles'
  <2>1. cfg'.src = "broker"
    BY Zenon, <1>1 DEF Broker
  <2> QED
    BY Zenon, <1>1, <2>1 DEF WholeFiles, ChunkedFiles
<1>5. Files'
  BY Zenon, <1>1 DEF Inv, Files, Nearing
<1>6. Located'
  <2>1. /\ \A u : Working(u)' <=> Working(u)
        /\ \A u : Contributes(u)' <=> Contributes(u)
        /\ Failing' <=> Failing
    BY Zenon, <1>1 DEF Working, Contributes, Contributors, Failing
  <2> QED
    BY Zenon, <1>1, <2>1 DEF Inv, Located
<1>7. AcksSettled' /\ CheckpointAccounted'
  BY Zenon, <1>1 DEF Inv, AcksSettled, CheckpointAccounted, Accounted, Spared
<1>8. SuccessAccounted'
  <2>1. result # "success"
    BY Zenon DEF SourceMoves, Inv, Control
  <2> QED
    BY Zenon, <1>1, <2>1 DEF SuccessAccounted
<1> QED
  BY Zenon, <1>2, <1>3, <1>4, <1>5, <1>6, <1>7, <1>8 DEF Inv

\* What was seen stays seen.
LEMMA SourceMovesSeen ==
    ASSUME SourceMoves
    PROVE  /\ \A u : Seen(u)' <=> Seen(u)
           /\ \A p, o : Covered(p, o)' <=> Covered(p, o)
           /\ \A d : HasUnit(d)' <=> HasUnit(d)
           /\ Broker' <=> Broker
<1>1. /\ UNCHANGED <<cfg, reader, queue, worker, lock, buf, units, acct, sink, acked, ckpt, errors,
                   result, lost>>
  BY Zenon DEF SourceMoves
<1> QED
  BY Zenon, <1>1 DEF Seen, Working, Contributes, Contributors, Covered, Accounted, HasUnit, Broker, Spared

\* A poll yields the next offsets of each partition, in the current epoch.
LEMMA PollFacts ==
    ASSUME Shape, NEW ns \in [Keys -> 0..MaxBatch], Poll(ns)
    PROVE  /\ SourceMoves
           /\ src'.epoch = src.epoch
           /\ \A p \in Keys : src.position[p] <= src'.position[p]
           /\ \A x \in src'.batch : /\ x \in Items /\ x[3] = src.epoch
                                    /\ src.position[x[1]] < x[2] /\ x[2] <= src'.position[x[1]]
           /\ \A p \in Keys : \A o \in 1..Length :
                 o <= src'.position[p] => o <= src.position[p] \/ <<p, o, src.epoch>> \in src'.batch
<1> DEFINE new(p) == {<<p, src.position[p] + j, src.epoch>> : j \in 1..ns[p]}
           all == UNION {new(p) : p \in Keys}
<1>1. src \in Sources
  BY Zenon DEF Shape, DataShape
<1>2. /\ Broker /\ reader.at = "next" /\ src.batch = {}
      /\ UNCHANGED <<cfg, reader, queue, worker, lock, buf, units, acct, sink, acked, ckpt, errors,
                   result, lost>>
      /\ \A p \in Keys : src.position[p] + ns[p] <= (IF p \in cfg.keys THEN Length ELSE 0)
      /\ src' = [src EXCEPT !.position = [p \in Keys |-> src.position[p] + ns[p]], !.batch = all]
  BY Zenon DEF Poll
<1>3. /\ src.position \in [Keys -> 0..Length] /\ src.epoch \in Nat
  BY Zenon, <1>1 DEF Sources
<1>4. ASSUME NEW p \in Keys
      PROVE  /\ ns[p] \in Nat /\ src.position[p] \in Nat
             /\ src.position[p] + ns[p] \in 0..Length
  <2>1. ns[p] \in 0..MaxBatch /\ src.position[p] \in 0..Length
    BY Zenon, <1>3
  <2>2. src.position[p] + ns[p] <= (IF p \in cfg.keys THEN Length ELSE 0)
    BY Zenon, <1>2
  <2> QED
    BY <2>1, <2>2, StreamConstants
<1>5. ASSUME NEW x \in all
      PROVE  /\ x \in Items /\ x[3] = src.epoch
             /\ src.position[x[1]] < x[2] /\ x[2] <= src.position[x[1]] + ns[x[1]]
  <2>1. PICK p \in Keys : x \in new(p)
    BY Zenon, <1>5
  <2>2. PICK j \in 1..ns[p] : x = <<p, src.position[p] + j, src.epoch>>
    BY Zenon, <2>1
  <2>3. /\ src.position[p] + j \in 1..Length /\ src.position[p] < src.position[p] + j
        /\ src.position[p] + j <= src.position[p] + ns[p]
    BY <1>4, <2>2, StreamConstants
  <2>4. x[1] = p /\ x[2] = src.position[p] + j /\ x[3] = src.epoch
    BY <2>2
  <2>5. x \in Items
    BY Zenon, <1>3, <2>2, <2>3 DEF Items
  <2> QED
    BY Zenon, <2>3, <2>4, <2>5
<1>6. ASSUME NEW p \in Keys, NEW o \in 1..Length, o <= src.position[p] + ns[p], ~(o <= src.position[p])
      PROVE  <<p, o, src.epoch>> \in all
  <2>1. o - src.position[p] \in 1..ns[p] /\ o = src.position[p] + (o - src.position[p])
    BY <1>4, <1>6, StreamConstants
  <2>2. PICK j \in 1..ns[p] : o = src.position[p] + j
    BY Zenon, <2>1
  <2>3. <<p, o, src.epoch>> \in new(p)
    BY Zenon, <2>2
  <2> QED
    BY Zenon, <2>3
<1>7. PICK pos : pos = [p \in Keys |-> src.position[p] + ns[p]]
  BY Zenon
<1>8. pos \in [Keys -> 0..Length] /\ \A p \in Keys : pos[p] = src.position[p] + ns[p]
  BY Zenon, <1>4, <1>7
<1> HIDE DEF all
<1>9. PICK b : b = all
  OBVIOUS
<1>10. b \in SUBSET Items
  BY Zenon, <1>5, <1>9
<1>11. src' = [src EXCEPT !.position = pos, !.batch = b]
  BY Zenon, <1>2, <1>7, <1>9
<1>12. src' \in Sources /\ src'.position = pos /\ src'.batch = b /\ src'.epoch = src.epoch
  BY Zenon, <1>1, <1>8, <1>10, <1>11 DEF Sources
<1>13. \A p \in Keys : src.position[p] <= src'.position[p]
  <2> SUFFICES ASSUME NEW p \in Keys PROVE src.position[p] <= src'.position[p]
    BY Zenon
  <2>1. src'.position[p] = src.position[p] + ns[p]
    BY Zenon, <1>8, <1>12
  <2> QED
    BY <1>4, <2>1
<1>14. \A x \in src'.batch : /\ x \in Items /\ x[3] = src.epoch
                             /\ src.position[x[1]] < x[2] /\ x[2] <= src'.position[x[1]]
  <2> SUFFICES ASSUME NEW x \in b
               PROVE  /\ x \in Items /\ x[3] = src.epoch
                      /\ src.position[x[1]] < x[2] /\ x[2] <= pos[x[1]]
    BY Zenon, <1>12
  <2>1. /\ x \in Items /\ x[3] = src.epoch
        /\ src.position[x[1]] < x[2] /\ x[2] <= src.position[x[1]] + ns[x[1]]
    BY Zenon, <1>5, <1>9
  <2>2. x[1] \in Keys
    BY Zenon, <2>1, ItemFacts
  <2> QED
    BY Zenon, <1>8, <2>1, <2>2
<1>15. \A p \in Keys : \A o \in 1..Length :
         o <= src'.position[p] => o <= src.position[p] \/ <<p, o, src.epoch>> \in src'.batch
  BY Zenon, <1>6, <1>8, <1>9, <1>12
<1>16. SourceMoves
  BY Zenon, <1>2, <1>12 DEF SourceMoves
<1> QED
  BY Zenon, <1>12, <1>13, <1>14, <1>15, <1>16

\* A poll keeps the invariant.
LEMMA PollInv == ASSUME Inv, NEW ns \in PollSizes, Poll(ns) PROVE Inv'
<1>1. /\ SourceMoves
      /\ src'.epoch = src.epoch
      /\ \A p \in Keys : src.position[p] <= src'.position[p]
      /\ \A x \in src'.batch : /\ x \in Items /\ x[3] = src.epoch
                               /\ src.position[x[1]] < x[2] /\ x[2] <= src'.position[x[1]]
      /\ \A p \in Keys : \A o \in 1..Length :
            o <= src'.position[p] => o <= src.position[p] \/ <<p, o, src.epoch>> \in src'.batch
  BY Zenon, PollFacts DEF Inv, PollSizes
<1>2. /\ \A u : Seen(u)' <=> Seen(u)
      /\ \A p, o : Covered(p, o)' <=> Covered(p, o)
      /\ \A d : HasUnit(d)' <=> HasUnit(d)
      /\ Broker' <=> Broker
  BY Zenon, <1>1, SourceMovesSeen
<1>3. /\ UNCHANGED <<cfg, units, acct, acked, reader, lost>> /\ Broker /\ src.batch = {}
      /\ src \in Sources /\ src' \in Sources
  BY Zenon, <1>1 DEF SourceMoves, Inv, Shape, DataShape
<1>4. Fresh'
  <2>1. ASSUME NEW u \in Items, Seen(u)
        PROVE  /\ u \notin src'.batch
               /\ u[3] < src.epoch \/ (u[3] = src.epoch /\ u[2] <= src'.position[u[1]])
    <3>1. u[3] < src.epoch \/ (u[3] = src.epoch /\ u[2] <= src.position[u[1]])
      BY Zenon, <1>3, <2>1 DEF Inv, Fresh
    <3>2. /\ u[1] \in Keys /\ u[2] \in 1..Length /\ u[3] \in Nat
      BY Zenon, ItemFacts
    <3>3. /\ src.position[u[1]] \in 0..Length /\ src'.position[u[1]] \in 0..Length /\ src.epoch \in Nat
          /\ src.position[u[1]] <= src'.position[u[1]]
      BY Zenon, <1>1, <1>3, <3>2 DEF Sources
    <3>4. u \in src'.batch => u[3] = src.epoch /\ src.position[u[1]] < u[2]
      BY Zenon, <1>1
    <3> QED
      BY <3>1, <3>2, <3>3, <3>4
  <2>2. \A i \in src'.batch : i[3] = src'.epoch /\ i[2] <= src'.position[i[1]]
    BY Zenon, <1>1
  <2> QED
    BY Zenon, <1>1, <1>2, <2>1, <2>2 DEF Fresh
<1>5. Coverage'
  <2>1. ASSUME NEW p \in Keys, NEW o \in 1..Length, o <= src'.position[p]
        PROVE  Covered(p, o) \/ <<p, o, src.epoch>> \in src'.batch
    BY Zenon, <1>1, <1>3, <2>1 DEF Inv, Coverage
  <2>2. ASSUME NEW u \in DOMAIN units, NEW o \in 1..Length, o < u[2] PROVE Covered(u[1], o)
    BY Zenon, <1>3, <2>2 DEF Inv, Coverage
  <2> QED
    BY Zenon, <1>1, <1>2, <1>3, <2>1, <2>2 DEF Coverage
<1>6. Outstanding'
  <2>1. ASSUME NEW d \in Data, d[2] <= src'.position[d[1]]
        PROVE  d \in acked \/ <<d[1], d[2], src.epoch>> \in src'.batch \/ HasUnit(d) \/ acct.pending
    <3>1. d[1] \in Keys /\ d[2] \in 1..Length
      BY DEF Data
    <3>2. d[2] <= src.position[d[1]] \/ <<d[1], d[2], src.epoch>> \in src'.batch
      BY Zenon, <1>1, <2>1, <3>1
    <3> QED
      BY Zenon, <1>3, <3>2 DEF Inv, Outstanding
  <2>2. reader.at = "close" /\ ~lost => DOMAIN units = {}
    BY Zenon, <1>3 DEF Inv, Outstanding
  <2> QED
    BY Zenon, <1>1, <1>2, <1>3, <2>1, <2>2 DEF Outstanding
<1>7. ThreadShape' /\ Control'
  BY Zenon, PollControl DEF Inv
<1> QED
  BY Zenon, <1>1, <1>4, <1>5, <1>6, <1>7, SourceMovesInv

=============================================================================
