----------------------- MODULE StreamExecutorProofs -----------------------
(***************************************************************************)
(* Proofs about StreamExecutor, for every set of configurations, keys,     *)
(* workers and every length: what the source gave up is settled, a         *)
(* checkpoint never passes an unsettled record, and a successful run       *)
(* settled everything it took.                                             *)
(***************************************************************************)
EXTENDS StreamExecutorLemmas

\* A consumer resumes after a prefix that is acknowledged.
LEMMA ResumeFacts ==
    ASSUME NEW p \in Keys
    PROVE  Resume(p) \in 0..Length /\ \A o \in 1..Length : o <= Resume(p) => <<p, o>> \in acked
<1> DEFINE S == {0} \union {o \in 1..Length : \A x \in 1..o : <<p, x>> \in acked \ refused}
<1>1. S \in SUBSET (0..Length) /\ S # {}
  BY StreamConstants
<1>2. PICK T \in SUBSET (0..Length) : T = S /\ T # {}
  BY Zenon, <1>1
<1>3. Max(T) \in T /\ \A x \in T : x <= Max(T)
  BY Zenon, <1>2, MaxFacts
<1>4. PICK r \in 0..Length : r = Resume(p) /\ r \in S
  BY Zenon, <1>2, <1>3 DEF Resume
<1>5. ASSUME NEW o \in 1..Length, o <= r PROVE <<p, o>> \in acked
  <2>1. r # 0 /\ o \in 1..r
    BY <1>4, <1>5
  <2>2. \A x \in 1..r : <<p, x>> \in acked \ refused
    BY Zenon, <1>4, <2>1
  <2> QED
    BY Zenon, <2>1, <2>2
<1> QED
  BY Zenon, <1>4, <1>5

\* A rewind keeps the invariant.
LEMMA RewindInv == ASSUME Inv, Rewind PROVE Inv'
<1>1. /\ Broker /\ reader.at = "next" /\ src.batch = {} /\ src \in Sources
      /\ UNCHANGED <<cfg, reader, queue, worker, lock, buf, units, acct, sink, acked, ckpt, errors,
                   result, lost>>
      /\ src' = [src EXCEPT !.position = [p \in Keys |-> Resume(p)], !.epoch = @ + 1, !.rewinds = @ + 1]
  BY Zenon DEF Rewind, Inv, Shape, DataShape
<1>2. PICK pos : pos = [p \in Keys |-> Resume(p)]
  BY Zenon
<1>3. /\ pos \in [Keys -> 0..Length]
      /\ \A p \in Keys : \A o \in 1..Length : o <= pos[p] => <<p, o>> \in acked
  BY Zenon, <1>2, ResumeFacts
<1>4. PICK e \in Nat, rw \in Nat : e = src.epoch + 1 /\ rw = src.rewinds + 1
  <2>1. src.epoch \in Nat /\ src.rewinds \in Nat
    BY Zenon, <1>1 DEF Sources
  <2>2. src.epoch + 1 \in Nat /\ src.rewinds + 1 \in Nat
    BY <2>1
  <2> QED
    BY Zenon, <2>2
<1>5. src' = [src EXCEPT !.position = pos, !.epoch = e, !.rewinds = rw]
  BY Zenon, <1>1, <1>2, <1>4
<1>6. src' \in Sources /\ src'.position = pos /\ src'.batch = {} /\ src'.epoch = e
  BY Zenon, <1>1, <1>3, <1>4, <1>5 DEF Sources
<1>7. SourceMoves
  BY Zenon, <1>1, <1>6 DEF SourceMoves
<1>8. /\ \A u : Seen(u)' <=> Seen(u)
      /\ \A p, o : Covered(p, o)' <=> Covered(p, o)
      /\ \A d : HasUnit(d)' <=> HasUnit(d)
      /\ Broker' <=> Broker
  BY Zenon, <1>7, SourceMovesSeen
<1>9. Fresh'
  <2>1. ASSUME NEW u \in Items, Seen(u) PROVE u[3] < e
    <3>1. u[3] < src.epoch \/ u[3] = src.epoch
      BY Zenon, <1>1, <2>1 DEF Inv, Fresh
    <3>2. u[3] \in Nat /\ src.epoch \in Nat
      BY Zenon, <1>1, ItemFacts DEF Sources
    <3> QED
      BY <1>4, <3>1, <3>2
  <2> QED
    BY Zenon, <1>6, <1>8, <2>1 DEF Fresh
<1>10. Coverage'
  <2>1. ASSUME NEW p \in Keys, NEW o \in 1..Length, o <= pos[p] PROVE Covered(p, o)
    <3>1. <<p, o>> \in acked
      BY Zenon, <1>3, <2>1
    <3>2. acked \subseteq Accounted
      <4>1. cfg.src # "sftp"
        BY Zenon, <1>1 DEF Broker
      <4> QED
        BY Zenon, <2>1, <4>1 DEF Inv, AcksSettled
    <3> QED
      BY Zenon, <3>1, <3>2 DEF Covered
  <2>2. ASSUME NEW u \in DOMAIN units, NEW o \in 1..Length, o < u[2] PROVE Covered(u[1], o)
    BY Zenon, <1>1, <2>2 DEF Inv, Coverage
  <2> QED
    BY Zenon, <1>1, <1>6, <1>8, <2>1, <2>2 DEF Coverage
<1>11. Outstanding'
  <2>1. ASSUME NEW d \in Data, d[2] <= pos[d[1]] PROVE d \in acked
    <3>1. d[1] \in Keys /\ d[2] \in 1..Length /\ d = <<d[1], d[2]>>
      BY DEF Data
    <3>2. <<d[1], d[2]>> \in acked
      BY Zenon, <1>3, <2>1, <3>1
    <3> QED
      BY Zenon, <3>1, <3>2
  <2>2. reader.at # "close"
    BY Zenon, <1>1
  <2> QED
    BY Zenon, <1>1, <1>6, <2>1, <2>2 DEF Outstanding
<1>12. ThreadShape' /\ Control'
  BY Zenon, RewindControl DEF Inv
<1> QED
  BY Zenon, <1>7, <1>9, <1>10, <1>11, <1>12, SourceMovesInv

\* An item is taken: it has a unit, and somebody works on it.
LEMMA TakeItemWork ==
    ASSUME Shape, NEW i \in src.batch, TakeItem(i)
    PROVE  \A u \in Items : Working(u)' <=> (Working(u) \/ u = i)
<1>1. /\ i \in Items /\ reader.at = "next" /\ reader'.item = i
      /\ \/ /\ Threaded /\ reader'.at \in {"join", "next"}
            /\ queue' = Append(queue, i)
         \/ /\ ~Threaded /\ reader'.at = "chunk"
            /\ queue' = queue
      /\ worker' = worker
      /\ queue \in Seq(Items)
  BY Zenon, TakeItemFacts DEF Shape, ThreadShape
<1>2. CASE queue' = Append(queue, i) /\ reader'.at \in {"join", "next"}
  <2>1. i \in Items /\ queue \in Seq(Items) /\ queue' = Append(queue, i)
    BY Zenon, <1>1, <1>2
  <2>2. /\ queue' \in Seq(Items) /\ Len(queue') = Len(queue) + 1
        /\ \A j : Among(queue', j) <=> (j = i \/ Among(queue, j))
    BY Zenon, <2>1, AppendQueue
  <2>3. reader.at # "chunk" /\ reader'.at # "chunk" /\ worker' = worker
    BY Zenon, <1>1, <1>2
  <2> QED
    BY Zenon, <2>2, <2>3 DEF Working
<1>3. CASE queue' = queue /\ reader'.at = "chunk"
  <2>1. reader.at # "chunk" /\ worker' = worker /\ reader'.item = i
    BY Zenon, <1>1
  <2> QED
    BY Zenon, <1>3, <2>1 DEF Working
<1> QED
  BY Zenon, <1>1, <1>2, <1>3

\* Taking a broker record keeps the conjuncts about records.
LEMMA TakeItemBroker ==
    ASSUME Inv, NEW i \in src.batch, TakeItem(i), Broker
    PROVE  Fresh' /\ BrokerUnits' /\ Coverage' /\ Located' /\ Outstanding'
<1>1. /\ i \in Items /\ reader.at = "next"
      /\ \A x \in src.batch : ~Before(x, i)
      /\ src' \in Sources /\ src'.position = src.position /\ src'.epoch = src.epoch
      /\ src'.batch = src.batch \ {i}
      /\ DOMAIN units' = DOMAIN units \union {UnitOf(i)}
      /\ \A v \in DOMAIN units : units'[v] = units[v]
      /\ UnitOf(i) \notin DOMAIN units => units'[UnitOf(i)] = NoCounts
      /\ reader'.at \in {"join", "next", "chunk"} /\ (reader'.then = "decide" \/ reader'.then = reader.then)
      /\ UNCHANGED <<cfg, worker, lock, buf, acct, sink, acked, ckpt, errors, stop, result, lost, faults>>
  BY Zenon, TakeItemFacts DEF Inv
<1>2. UnitOf(i) = i /\ i[1] \in Keys /\ i[2] \in 1..Length /\ i[3] \in Nat /\ i = <<i[1], i[2], i[3]>>
  BY Zenon, <1>1, ItemFacts
<1>3. /\ i[3] = src.epoch /\ i[2] <= src.position[i[1]]
      /\ ~Seen(i)
  BY Zenon, <1>1 DEF Inv, Fresh
<1>4. /\ i \notin DOMAIN units /\ DOMAIN units' = DOMAIN units \union {i} /\ units'[i] = NoCounts
      /\ \A v \in DOMAIN units : units'[v] = units[v]
  BY Zenon, <1>1, <1>2, <1>3 DEF Seen
<1>5. \A u \in Items : Working(u)' <=> (Working(u) \/ u = i)
  BY Zenon, TakeItemWork DEF Inv
<1>6. /\ Broker' /\ Contributors' = Contributors
      /\ \A u : Contributes(u)' <=> Contributes(u)
      /\ Accounted' = Accounted /\ buf' = buf /\ lock' = lock
  BY Zenon, <1>1 DEF Broker, Contributors, Contributes, Accounted, Spared
<1>7. Fresh'
  <2>1. \A u \in Items : Seen(u)' => Seen(u) \/ u = i
    BY Zenon, <1>4, <1>5, <1>6 DEF Seen
  <2>2. \A u \in Items : Seen(u) => /\ u \notin src.batch
                                    /\ u[3] < src.epoch \/ (u[3] = src.epoch /\ u[2] <= src.position[u[1]])
    BY Zenon DEF Inv, Fresh
  <2>3. \A x \in src.batch : x[3] = src.epoch /\ x[2] <= src.position[x[1]]
    BY Zenon DEF Inv, Fresh
  <2> QED
    BY Zenon, <1>1, <1>3, <2>1, <2>2, <2>3 DEF Fresh
<1>8. BrokerUnits'
  <2>1. ~(units'[i].delivered > 0) /\ ~(units'[i].dlqOk > 0)
    BY <1>4 DEF NoCounts
  <2>2. \A u \in DOMAIN units : Good(u)' <=> Good(u)
    BY Zenon, <1>1, <1>4 DEF Good, Spared
  <2>3. \A u \in DOMAIN units : Excused(u)' <=> Excused(u)
    BY Zenon, <1>1, <1>4 DEF Excused, Spared
  <2>4. \A u \in DOMAIN units' : Good(u)'
    <3>1. Good(i)'
      BY Zenon, <2>1 DEF Good
    <3>2. \A u \in DOMAIN units : Good(u)
      BY Zenon DEF Inv, BrokerUnits
    <3> QED
      BY Zenon, <1>4, <2>2, <3>1, <3>2
  <2>5. \A x \in Contributors : x[1] # i
    BY Zenon, <1>3 DEF Seen, Contributes
  <2>6. /\ \A x \in Contributors : x[1] \in DOMAIN units' /\ ~x[2] => Excused(x[1])'
    BY Zenon, <1>4, <2>3, <2>5 DEF Inv, BrokerUnits
  <2>7. /\ buf.completed \subseteq DOMAIN units'
        /\ \A u \in buf.completed : Excused(u)'
    BY Zenon, <1>4, <2>3 DEF Inv, BrokerUnits
  <2>8. /\ \A x \in buf.contributors : x[2] => x[1] \in buf.records
        /\ \A x \in lock.contributors : x[2] => x[1] \in lock.records
    BY Zenon DEF Inv, BrokerUnits
  <2> QED
    BY Zenon, <1>1, <1>6, <2>4, <2>6, <2>7, <2>8 DEF BrokerUnits
<1>9. /\ \A d : HasUnit(d) => HasUnit(d)'
      /\ HasUnit(Datum(i))'
  BY Zenon, <1>4 DEF HasUnit
<1>10. \A p, o : Covered(p, o) => Covered(p, o)'
  BY Zenon, <1>1, <1>6, <1>9 DEF Covered
<1>11. ASSUME NEW o, <<i[1], o, src.epoch>> \in src.batch PROVE ~(o < i[2])
  <2>1. PICK x \in src.batch : x = <<i[1], o, src.epoch>>
    BY Zenon, <1>11
  <2>2. x[1] = i[1] /\ x[2] = o
    BY <2>1
  <2> QED
    BY Zenon, <1>1, <2>2 DEF Before
<1>12. \A p, o : <<p, o, src.epoch>> = i => HasUnit(<<p, o>>)'
  <2> SUFFICES ASSUME NEW p, NEW o, <<p, o, src.epoch>> = i PROVE Datum(i) = <<p, o>>
    BY Zenon, <1>9
  <2>1. i[1] = p /\ i[2] = o
    OBVIOUS
  <2> QED
    BY Zenon, <2>1 DEF Datum
<1>13. Coverage'
  <2>1. ASSUME NEW u \in DOMAIN units', NEW o \in 1..Length, o < u[2] PROVE Covered(u[1], o)'
    <3>1. CASE u \in DOMAIN units
      BY Zenon, <1>10, <2>1, <3>1 DEF Inv, Coverage
    <3>2. CASE u = i
      <4>1. o <= src.position[i[1]]
        <5>1. src.position[i[1]] \in 0..Length
          BY Zenon, <1>2 DEF Inv, Shape, DataShape, Sources
        <5> QED
          BY <1>2, <1>3, <2>1, <3>2, <5>1
      <4>2. Covered(i[1], o) \/ <<i[1], o, src.epoch>> \in src.batch
        BY Zenon, <1>2, <4>1 DEF Inv, Coverage
      <4>3. Covered(i[1], o)
        BY Zenon, <1>11, <2>1, <3>2, <4>2
      <4> QED
        BY Zenon, <1>10, <3>2, <4>3
    <3> QED
      BY Zenon, <1>4, <3>1, <3>2
  <2>2. ASSUME NEW p \in Keys, NEW o \in 1..Length, o <= src.position[p]
        PROVE  Covered(p, o)' \/ <<p, o, src.epoch>> \in src'.batch
    <3>1. Covered(p, o) \/ <<p, o, src.epoch>> \in src.batch
      BY Zenon, <2>2 DEF Inv, Coverage
    <3>2. <<p, o, src.epoch>> = i => Covered(p, o)'
      BY Zenon, <1>12 DEF Covered
    <3> QED
      BY Zenon, <1>1, <1>10, <3>1, <3>2
  <2> QED
    BY Zenon, <1>1, <2>1, <2>2 DEF Coverage
<1>14. Located'
  <2>1. reader.then # "failed" /\ (Failing => Failing')
    <3>1. reader.then # "failed"
      BY Zenon, <1>1 DEF Inv, Control
    <3> QED
      BY Zenon, <1>1, <3>1 DEF Failing
  <2>2. DOMAIN units \subseteq Items
    BY Zenon DEF Inv, Shape, DataShape
  <2>3. ASSUME ~lost, ~Failing, NEW u \in DOMAIN units' PROVE Working(u)' \/ Contributes(u)' \/ u \in buf.completed
    BY Zenon, <1>1, <1>4, <1>5, <1>6, <2>2, <2>3 DEF Inv, Located
  <2> QED
    BY Zenon, <1>1, <1>6, <2>1, <2>3 DEF Located
<1>15. Outstanding'
  <2>1. ASSUME NEW d \in Data, d[2] <= src.position[d[1]]
        PROVE  d \in acked \/ <<d[1], d[2], src.epoch>> \in src'.batch \/ HasUnit(d)' \/ acct.pending
    <3>1. d = <<d[1], d[2]>>
      BY DEF Data
    <3>2. d \in acked \/ <<d[1], d[2], src.epoch>> \in src.batch \/ HasUnit(d) \/ acct.pending
      BY Zenon, <2>1 DEF Inv, Outstanding
    <3>3. <<d[1], d[2], src.epoch>> = i => HasUnit(d)'
      BY Zenon, <1>12, <3>1
    <3> QED
      BY Zenon, <1>1, <1>9, <3>2, <3>3
  <2>2. reader'.at # "close"
    BY Zenon, <1>1
  <2> QED
    BY Zenon, <1>1, <2>1, <2>2 DEF Outstanding
<1> QED
  BY Zenon, <1>7, <1>8, <1>13, <1>14, <1>15

\* The first chunk of a file, or the next one of the open file.
LEMMA TakeItemFiles ==
    ASSUME Inv, NEW i \in src.batch, TakeItem(i), ~Broker
    PROVE  WholeFiles' /\ Files' /\ ChunkedFiles'
<1>1. /\ i \in Items /\ reader.at = "next" /\ ~Boundary(i)
      /\ \A x \in src.batch : ~Before(x, i)
      /\ src'.batch = src.batch \ {i}
      /\ DOMAIN units' = DOMAIN units \union {UnitOf(i)}
      /\ \A v \in DOMAIN units : units'[v] = units[v]
      /\ UnitOf(i) \notin DOMAIN units => units'[UnitOf(i)] = NoCounts
      /\ reader'.unit = UnitOf(i)
      /\ reader'.at = "chunk" \/ reader'.then = "decide"
      /\ reader'.at \in {"join", "next", "chunk"} /\ (reader'.then = "decide" \/ reader'.then = reader.then)
      /\ UNCHANGED <<cfg, worker, lock, buf, acct, sink, acked, ckpt, errors, stop, result, lost, faults>>
  BY Zenon, TakeItemFacts DEF Inv
<1>2. \A u \in Items : Working(u)' <=> (Working(u) \/ u = i)
  BY Zenon, TakeItemWork DEF Inv
<1>3. Records' = Records /\ Handled' = Handled /\ ~Broker' /\ src.batch \subseteq Items
  BY Zenon, <1>1 DEF Records, Handled, Broker, Inv, Shape, DataShape, Sources, Spared
<1>4. ~Nearing("file")' /\ ~Nearing("lastFile")'
  BY Zenon, <1>1 DEF Nearing
<1>5. WholeFiles'
  <2> SUFFICES ASSUME cfg.src # "sftp" PROVE WholeFiles'
    BY Zenon, <1>1, <1>3 DEF WholeFiles
  <2>1. ASSUME NEW j \in Items, j \in src'.batch \/ j \in Records' \/ Working(j)' PROVE j[2] = 1
    <3>1. j \in src.batch \/ j \in Records \/ Working(j)
      BY Zenon, <1>1, <1>2, <1>3, <2>1
    <3> QED
      BY Zenon, <3>1 DEF Inv, WholeFiles
  <2>2. ASSUME NEW u \in DOMAIN units'
        PROVE  \/ <<u[1], 1>> \in Handled
               \/ /\ ~(units'[u].dlqOk > 0)
                  /\ \/ units'[u].failed > 0 \/ units'[u].dlqFail > 0
                     \/ ~(units'[u].in > 0) /\ ~(units'[u].delivered > 0)
    <3>1. CASE u \in DOMAIN units
      BY Zenon, <1>1, <3>1 DEF Inv, WholeFiles
    <3>2. CASE units'[u] = NoCounts
      BY <3>2 DEF NoCounts
    <3> QED
      BY Zenon, <1>1, <3>1, <3>2
  <2> QED
    BY Zenon, <1>1, <1>3, <2>1, <2>2 DEF WholeFiles
<1>6. Files'
  BY Zenon, <1>1, <1>3, <1>4 DEF Files
<1>7. ChunkedFiles'
  <2> SUFFICES ASSUME cfg.src = "sftp" PROVE ChunkedFiles'
    BY Zenon, <1>1 DEF ChunkedFiles
  <2>1. PICK U : U = reader'.unit /\ U = <<i[1], 0, 0>> /\ U = UnitOf(i)
    BY Zenon, <1>1, ItemFacts
  <2>2. U[1] = i[1] /\ U # <<>>
    BY <2>1
  <2>3. reader.unit = <<>> \/ reader.unit = U
    BY Zenon, <1>1, <2>1 DEF Boundary
  <2>4. ASSUME NEW x \in src.batch PROVE x[3] = 0 /\ i[1] <= x[1]
    <3>1. x[3] = 0
      BY Zenon DEF Inv, ChunkedFiles
    <3>2. ~(x[1] < i[1])
      BY Zenon, <1>1 DEF Before
    <3>3. x[1] \in Nat /\ i[1] \in Nat
      BY Zenon, <1>1, <1>3, ItemFacts, StreamConstants
    <3> QED
      BY <3>1, <3>2, <3>3
  <2>5. ASSUME NEW x \in src.batch, reader.unit = <<>> \/ x[1] # i[1], NEW j \in Items, j[1] = x[1], j[3] = 0
        PROVE  j \in src.batch
    BY Zenon, <2>2, <2>3, <2>5 DEF Inv, ChunkedFiles
  <2>6. ASSUME ~acct.loss, ~lost, ~Failing', NEW j \in Items, j[1] = i[1], j[3] = 0
        PROVE  Somewhere(j)'
    <3>1. ~Failing
      BY Zenon, <1>1, <2>6 DEF Failing, Inv, Control
    <3>2. Somewhere(j)
      <4>1. CASE reader.unit = <<>>
        BY Zenon, <2>5, <2>6, <4>1 DEF Somewhere
      <4>2. CASE reader.unit = U
        BY Zenon, <2>2, <2>6, <3>1, <4>2 DEF Inv, ChunkedFiles
      <4> QED
        BY Zenon, <2>3, <4>1, <4>2
    <3> QED
      BY Zenon, <1>1, <1>2, <1>3, <3>2 DEF Somewhere
  <2>7. ASSUME NEW x \in src'.batch, x[1] # U[1], NEW j \in Items, j[1] = x[1], j[3] = 0 PROVE j \in src'.batch
    BY Zenon, <1>1, <2>2, <2>5, <2>7
  <2> QED
    BY Zenon, <1>1, <1>4, <2>1, <2>2, <2>4, <2>6, <2>7 DEF ChunkedFiles
<1> QED
  BY Zenon, <1>5, <1>6, <1>7

\* Taking an item keeps the invariant.
LEMMA TakeItemInv == ASSUME Inv, NEW i \in src.batch, TakeItem(i) PROVE Inv'
<1>1. /\ reader.at = "next"
      /\ DOMAIN units' = DOMAIN units \union {UnitOf(i)}
      /\ \A v \in DOMAIN units : units'[v] = units[v]
      /\ UnitOf(i) \notin DOMAIN units => units'[UnitOf(i)] = NoCounts
      /\ reader'.unit = IF Broker THEN <<>> ELSE UnitOf(i)
      /\ reader'.at \in {"join", "next", "chunk"} /\ (reader'.at = "chunk" \/ reader'.then = "decide")
      /\ UNCHANGED <<cfg, worker, lock, buf, acct, sink, acked, ckpt, errors, stop, result, lost, faults>>
  BY Zenon, TakeItemFacts DEF Inv
<1>2. Shape' /\ Control'
  BY Zenon, TakeItemControl DEF Inv
<1>3. Broker' <=> Broker
  BY Zenon, <1>1 DEF Broker
<1>4. Losses'
  <2>1. ASSUME NEW u \in DOMAIN units', units'[u].failed > 0 PROVE acct.loss
    <3>1. CASE u \in DOMAIN units
      BY Zenon, <1>1, <2>1, <3>1 DEF Inv, Losses
    <3>2. CASE units'[u] = NoCounts
      BY <2>1, <3>2 DEF NoCounts
    <3> QED
      BY Zenon, <1>1, <3>1, <3>2
  <2> QED
    BY Zenon, <1>1, <2>1 DEF Inv, Losses
<1>5. AcksSettled' /\ CheckpointAccounted'
  BY Zenon, <1>1 DEF Inv, AcksSettled, CheckpointAccounted, Accounted, Broker, Spared
<1>6. SuccessAccounted'
  <2>1. result # "success"
    BY Zenon, <1>1 DEF Inv, Control
  <2> QED
    BY Zenon, <1>1, <2>1 DEF SuccessAccounted
<1>7. CASE Broker
  <2>1. Fresh' /\ BrokerUnits' /\ Coverage' /\ Located' /\ Outstanding'
    BY Zenon, <1>7, TakeItemBroker
  <2>2. Files'
    BY Zenon, <1>1, <1>7 DEF Files, Nearing
  <2>3. WholeFiles' /\ ChunkedFiles'
    <3>1. cfg'.src = "broker" /\ Broker'
      BY Zenon, <1>1, <1>7 DEF Broker
    <3> QED
      BY Zenon, <3>1 DEF WholeFiles, ChunkedFiles
  <2> QED
    BY Zenon, <1>2, <1>4, <1>5, <1>6, <2>1, <2>2, <2>3 DEF Inv
<1>8. CASE ~Broker
  <2>1. Fresh' /\ BrokerUnits' /\ Coverage' /\ Located' /\ Outstanding'
    BY Zenon, <1>3, <1>8 DEF Fresh, BrokerUnits, Coverage, Located, Outstanding
  <2>2. WholeFiles' /\ Files' /\ ChunkedFiles'
    BY Zenon, <1>8, TakeItemFiles
  <2> QED
    BY Zenon, <1>2, <1>4, <1>5, <1>6, <2>1, <2>2 DEF Inv
<1> QED
  BY Zenon, <1>7, <1>8

-----------------------------------------------------------------------------
(* A chunk is processed: its record is buffered, or its unit tells why not. *)

\* What a processed chunk changes: it leaves the threads, and is kept, filtered, lost or lettered.
LEMMA ChunkMoves ==
    ASSUME Inv, NEW i \in Items, NEW kind \in Kinds, NEW raises \in BOOLEAN, ChunkStep(i, kind, raises)
    PROVE  /\ UNCHANGED <<cfg, src, lock, acked, ckpt, stop, result, lost>>
           /\ Working(i)
           /\ \A x \in Items : (Working(x)' => Working(x)) /\ (Working(x) => Working(x)' \/ x = i)
           /\ Failing \/ raises => Failing'
           /\ buf'.completed = buf.completed
           /\ Records \subseteq Records' /\ Records' \subseteq Records \union {i}
           /\ kind = "keeps" => i \in Records' /\ i \in buf'.records
           /\ buf.records \subseteq buf'.records
           /\ acct'.pending = acct.pending /\ acct'.gaps = acct.gaps
           /\ acct'.loss <=> acct.loss \/ kind = "loses"
           /\ sink'.written = sink.written /\ sink'.dropped = sink.dropped
           /\ Spared \subseteq Spared' /\ sink.dlq \subseteq sink'.dlq
           /\ kind = "filters" => Datum(i) \in Spared'
           /\ kind = "letters" => Datum(i) \in sink'.dlq
           /\ Accounted \subseteq Accounted' /\ Handled \subseteq Handled'
           /\ Broker' <=> Broker
<1>1. /\ ProcStep(i, raises, kind)
      /\ UNCHANGED <<cfg, src, lock, acked, ckpt, stop, result, lost>>
      /\ Working(i)
      /\ \A x \in Items : (Working(x)' => Working(x)) /\ (Working(x) => Working(x)' \/ x = i)
      /\ Failing \/ raises => Failing'
  BY Zenon DEF ChunkStep
<1>2. /\ buf'.completed = buf.completed
      /\ buf'.records = IF kind = "keeps" THEN buf.records \union {i} ELSE buf.records
  BY Zenon, <1>1, ProcBuffer DEF Inv
<1>3. /\ Records \subseteq Records' /\ Records' \subseteq Records \union {i}
      /\ kind = "keeps" => i \in Records' /\ i \in buf'.records
      /\ buf.records \subseteq buf'.records
  <2>1. lock'.records = lock.records
    BY Zenon, <1>1
  <2>2. CASE kind = "keeps"
    BY Zenon, <1>2, <2>1, <2>2 DEF Records
  <2>3. CASE kind # "keeps"
    BY Zenon, <1>2, <2>1, <2>3 DEF Records
  <2> QED
    BY Zenon, <2>2, <2>3
<1>4. /\ acct'.pending = acct.pending /\ acct'.gaps = acct.gaps
      /\ acct'.loss <=> acct.loss \/ kind = "loses"
      /\ sink'.written = sink.written /\ sink'.dropped = sink.dropped /\ sink'.durable = sink.durable
      /\ Spared' = IF kind = "filters" THEN Spared \union {Datum(i)} ELSE Spared
      /\ sink'.dlq = IF kind = "letters" THEN sink.dlq \union {Datum(i)} ELSE sink.dlq
  BY Zenon, <1>1 DEF ProcStep
<1>5. /\ Spared \subseteq Spared' /\ sink.dlq \subseteq sink'.dlq
      /\ kind = "filters" => Datum(i) \in Spared'
      /\ kind = "letters" => Datum(i) \in sink'.dlq
  BY Zenon, <1>4
<1>6. Accounted \subseteq Accounted' /\ Handled \subseteq Handled'
  BY Zenon, <1>4, <1>5 DEF Accounted, Handled
<1>7. Broker' <=> Broker
  BY Zenon, <1>1 DEF Broker
<1> QED
  BY Zenon, <1>1, <1>2, <1>3, <1>4, <1>5, <1>6, <1>7

\* What a chunk may do to the counts of any unit.
LEMMA ChunkCounts ==
    ASSUME Inv, NEW i \in Items, NEW kind \in Kinds, NEW raises \in BOOLEAN, ChunkStep(i, kind, raises),
           NEW u \in DOMAIN units
    PROVE  /\ DOMAIN units' = DOMAIN units
           /\ units'[u].delivered = units[u].delivered
           /\ units[u].dlqOk > 0 => units'[u].dlqOk > 0
           /\ units[u].failed > 0 => units'[u].failed > 0
           /\ units[u].dlqFail > 0 => units'[u].dlqFail > 0
           /\ units'[u].dlqOk > 0 => units[u].dlqOk > 0 \/ (kind = "letters" /\ u = UnitOf(i))
           /\ units'[u].failed > 0 => units[u].failed > 0 \/ kind = "loses"
           /\ u = UnitOf(i) /\ kind = "letters" => units'[u].dlqOk > 0
           /\ u = UnitOf(i) /\ kind = "loses" => units'[u].failed > 0 \/ units'[u].dlqFail > 0
           /\ ~Broker => units'[u].in = units[u].in
<1>1. /\ DOMAIN units' = DOMAIN units
      /\ u # UnitOf(i) => units'[u] = units[u]
      /\ u = UnitOf(i) => Charges(units[u], units'[u], kind)
  BY Zenon DEF ChunkStep, ProcStep
<1>2. CASE u # UnitOf(i)
  BY Zenon, <1>1, <1>2
<1>3. CASE u = UnitOf(i)
  <2>1. Charges(units[u], units'[u], kind)
    BY Zenon, <1>1, <1>3
  <2>2. CASE kind \in {"keeps", "filters", "aborts"}
    BY Zenon, <1>1, <2>1, <2>2 DEF Charges
  <2>3. CASE kind = "letters"
    BY Zenon, <1>1, <1>3, <2>1, <2>3 DEF Charges
  <2>4. CASE kind = "loses"
    BY Zenon, <1>1, <2>1, <2>4 DEF Charges
  <2> QED
    BY Zenon, <2>2, <2>3, <2>4 DEF Kinds
<1> QED
  BY Zenon, <1>2, <1>3

\* The unit of a processed record contributes to the next flush.
LEMMA ChunkContributors ==
    ASSUME Inv, NEW i \in Items, NEW kind \in Kinds, NEW raises \in BOOLEAN, ChunkStep(i, kind, raises), Broker
    PROVE  /\ \A x \in buf'.contributors :
                 \/ x \in buf.contributors
                 \/ x[1] = i /\ (x[2] <=> kind = "keeps") /\ ~raises
           /\ buf.contributors \subseteq buf'.contributors
           /\ ~raises => Contributes(i)'
           /\ \A u : Contributes(u)' => Contributes(u) \/ u = i
           /\ \A u : Contributes(u) => Contributes(u)'
<1>1. PICK k \in BOOLEAN :
        /\ k <=> kind = "keeps"
        /\ buf'.contributors = IF Broker /\ ~raises THEN buf.contributors \union {<<i, k>>} ELSE buf.contributors
  <2>1. Shape /\ ProcStep(i, raises, kind)
    BY Zenon DEF Inv, ChunkStep
  <2>2. /\ buf' \in Buffers /\ buf'.completed = buf.completed
        /\ buf'.records = IF kind = "keeps" THEN buf.records \union {i} ELSE buf.records
        /\ \E k \in BOOLEAN :
             /\ k <=> kind = "keeps"
             /\ buf'.contributors = IF Broker /\ ~raises THEN buf.contributors \union {<<i, k>>} ELSE buf.contributors
    BY Zenon, <2>1, ProcBuffer
  <2> QED
    BY Zenon, <2>2
<1>2. PICK x : x = <<i, k>> /\ x[1] = i /\ (x[2] <=> k)
  <2>1. <<i, k>>[1] = i /\ <<i, k>>[2] = k
    BY Zenon
  <2> QED
    BY Zenon, <2>1
<1>3. lock' = lock
  BY Zenon DEF ChunkStep
<1>4. CASE ~raises
  <2>1. buf'.contributors = buf.contributors \union {x}
    BY Zenon, <1>1, <1>2, <1>4
  <2>2. Contributors' = Contributors \union {x}
    BY Zenon, <1>3, <2>1 DEF Contributors
  <2>3. /\ Contributes(i)'
        /\ \A u : Contributes(u)' => Contributes(u) \/ u = i
        /\ \A u : Contributes(u) => Contributes(u)'
    BY Zenon, <1>2, <2>2 DEF Contributes
  <2> QED
    BY Zenon, <1>1, <1>2, <1>4, <2>1, <2>3
<1>5. CASE raises
  <2>1. buf'.contributors = buf.contributors /\ Contributors' = Contributors
    BY Zenon, <1>1, <1>3, <1>5 DEF Contributors
  <2> QED
    BY Zenon, <1>5, <2>1 DEF Contributes
<1> QED
  BY Zenon, <1>4, <1>5

\* A processed record keeps the conjuncts about records.
LEMMA ChunkBroker ==
    ASSUME Inv, NEW i \in Items, NEW kind \in Kinds, NEW raises \in BOOLEAN, ChunkStep(i, kind, raises), Broker
    PROVE  Fresh' /\ BrokerUnits' /\ Coverage' /\ Located' /\ Outstanding'
<1>1. /\ UNCHANGED <<cfg, src, lock, acked, ckpt, stop, result, lost>>
      /\ Working(i)
      /\ \A x \in Items : (Working(x)' => Working(x)) /\ (Working(x) => Working(x)' \/ x = i)
      /\ Failing \/ raises => Failing'
      /\ buf'.completed = buf.completed
      /\ kind = "keeps" => i \in buf'.records
      /\ buf.records \subseteq buf'.records
      /\ acct'.pending = acct.pending /\ acct'.gaps = acct.gaps
      /\ sink'.written = sink.written
      /\ Spared \subseteq Spared' /\ sink.dlq \subseteq sink'.dlq
      /\ kind = "filters" => Datum(i) \in Spared'
      /\ kind = "letters" => Datum(i) \in sink'.dlq
      /\ Accounted \subseteq Accounted'
      /\ Broker'
  BY Zenon, ChunkMoves
<1>2. /\ \A x \in buf'.contributors :
            \/ x \in buf.contributors
            \/ x[1] = i /\ (x[2] <=> kind = "keeps") /\ ~raises
      /\ buf.contributors \subseteq buf'.contributors
      /\ ~raises => Contributes(i)'
      /\ \A u : Contributes(u)' => Contributes(u) \/ u = i
      /\ \A u : Contributes(u) => Contributes(u)'
  BY Zenon, ChunkContributors
<1>3. DOMAIN units' = DOMAIN units /\ UnitOf(i) = i
  BY Zenon, ItemFacts DEF ChunkStep, ProcStep
<1>4. ASSUME NEW u \in DOMAIN units
      PROVE  /\ units'[u].delivered = units[u].delivered
             /\ units[u].dlqOk > 0 => units'[u].dlqOk > 0
             /\ units[u].failed > 0 => units'[u].failed > 0
             /\ units[u].dlqFail > 0 => units'[u].dlqFail > 0
             /\ units'[u].dlqOk > 0 => units[u].dlqOk > 0 \/ (kind = "letters" /\ u = i)
             /\ u = i /\ kind = "letters" => units'[u].dlqOk > 0
             /\ u = i /\ kind = "loses" => units'[u].failed > 0 \/ units'[u].dlqFail > 0
  BY Zenon, <1>3, ChunkCounts
<1>5. Fresh'
  <2>1. \A u \in Items : Seen(u)' => Seen(u)
    BY Zenon, <1>1, <1>2, <1>3 DEF Seen
  <2> QED
    BY Zenon, <1>1, <2>1 DEF Inv, Fresh
<1>6. BrokerUnits'
  <2>1. ASSUME NEW u \in DOMAIN units PROVE Good(u)'
    <3>1. Good(u)
      BY Zenon DEF Inv, BrokerUnits
    <3>2. /\ units'[u].delivered = units[u].delivered
          /\ units'[u].dlqOk > 0 => units[u].dlqOk > 0 \/ (kind = "letters" /\ u = i)
      BY Zenon, <1>4
    <3>3. units'[u].dlqOk > 0 => Datum(u) \in sink'.dlq \union Spared'
      BY Zenon, <1>1, <3>1, <3>2 DEF Good
    <3> QED
      BY Zenon, <1>1, <3>1, <3>2, <3>3 DEF Good
  <2>2. ASSUME NEW u \in DOMAIN units, Excused(u) PROVE Excused(u)'
    <3>1. /\ units'[u].delivered = units[u].delivered
          /\ units[u].dlqOk > 0 => units'[u].dlqOk > 0
          /\ units[u].failed > 0 => units'[u].failed > 0
          /\ units[u].dlqFail > 0 => units'[u].dlqFail > 0
      BY Zenon, <1>4
    <3> QED
      BY Zenon, <1>1, <2>2, <3>1 DEF Excused
  <2>3. ASSUME i \in DOMAIN units, ~raises, kind # "keeps" PROVE Excused(i)'
    <3>1. kind # "aborts"
      BY Zenon, <2>3 DEF ChunkStep, ProcStep
    <3>2. /\ kind = "letters" => units'[i].dlqOk > 0
          /\ kind = "loses" => units'[i].failed > 0 \/ units'[i].dlqFail > 0
      BY Zenon, <1>4, <2>3
    <3> QED
      BY Zenon, <1>1, <2>3, <3>1, <3>2 DEF Excused, Kinds
  <2>4. ASSUME NEW x \in Contributors', x[1] \in DOMAIN units, ~x[2] PROVE Excused(x[1])'
    <3>1. CASE x \in Contributors
      BY Zenon, <2>2, <2>4, <3>1 DEF Inv, BrokerUnits
    <3>2. CASE x[1] = i /\ (x[2] <=> kind = "keeps") /\ ~raises
      BY Zenon, <2>3, <2>4, <3>2
    <3> QED
      BY Zenon, <1>1, <1>2, <3>1, <3>2 DEF Contributors
  <2>5. ASSUME NEW x \in buf'.contributors, x[2] PROVE x[1] \in buf'.records
    BY Zenon, <1>1, <1>2, <2>5 DEF Inv, BrokerUnits
  <2>6. \A x \in lock.contributors : x[2] => x[1] \in lock.records
    BY Zenon DEF Inv, BrokerUnits
  <2>7. /\ buf.completed \subseteq DOMAIN units
        /\ \A u \in buf.completed : Excused(u)'
    BY Zenon, <2>2 DEF Inv, BrokerUnits
  <2> QED
    BY Zenon, <1>1, <1>3, <2>1, <2>4, <2>5, <2>6, <2>7 DEF BrokerUnits
<1>7. /\ \A d : HasUnit(d)' <=> HasUnit(d)
      /\ \A p, o : Covered(p, o) => Covered(p, o)'
  <2>1. \A d : HasUnit(d)' <=> HasUnit(d)
    BY Zenon, <1>3 DEF HasUnit
  <2> QED
    BY Zenon, <1>1, <2>1 DEF Covered
<1>8. Coverage'
  BY Zenon, <1>1, <1>3, <1>7 DEF Inv, Coverage
<1>9. Located'
  <2>1. DOMAIN units \subseteq Items
    BY Zenon DEF Inv, Shape, DataShape
  <2> QED
    BY Zenon, <1>1, <1>2, <1>3, <2>1 DEF Inv, Located
<1>10. Outstanding'
  <2>1. \A d \in Data : d[2] <= src.position[d[1]] =>
          d \in acked \/ <<d[1], d[2], src.epoch>> \in src.batch \/ HasUnit(d)' \/ acct.pending
    BY Zenon, <1>7 DEF Inv, Outstanding
  <2>2. reader'.at = "close" /\ ~lost => DOMAIN units = {}
    BY Zenon DEF Inv, Outstanding, ChunkStep, Lingers
  <2> QED
    BY Zenon, <1>1, <1>3, <2>1, <2>2 DEF Outstanding
<1> QED
  BY Zenon, <1>5, <1>6, <1>8, <1>9, <1>10

\* A processed chunk keeps the conjuncts about files.
LEMMA ChunkFiles ==
    ASSUME Inv, NEW i \in Items, NEW kind \in Kinds, NEW raises \in BOOLEAN, ChunkStep(i, kind, raises)
    PROVE  WholeFiles' /\ Files' /\ ChunkedFiles'
<1>1. /\ UNCHANGED <<cfg, src, lock, acked, ckpt, stop, result, lost>>
      /\ Working(i)
      /\ \A x \in Items : (Working(x)' => Working(x)) /\ (Working(x) => Working(x)' \/ x = i)
      /\ Failing \/ raises => Failing'
      /\ Records \subseteq Records' /\ Records' \subseteq Records \union {i}
      /\ kind = "keeps" => i \in Records'
      /\ acct'.loss <=> acct.loss \/ kind = "loses"
      /\ kind = "filters" => Datum(i) \in Spared'
      /\ kind = "letters" => Datum(i) \in sink'.dlq
      /\ Handled \subseteq Handled'
      /\ Broker' <=> Broker
  BY Zenon, ChunkMoves
<1>2. DOMAIN units' = DOMAIN units
  BY Zenon DEF ChunkStep, ProcStep
<1>3. Lingers
  BY Zenon DEF ChunkStep
<1>4. kind \in {"filters", "letters"} => Datum(i) \in Handled'
  BY Zenon, <1>1 DEF Handled
<1>5. WholeFiles'
  <2> SUFFICES ASSUME ~Broker, cfg.src # "sftp" PROVE WholeFiles'
    BY Zenon, <1>1 DEF WholeFiles
  <2>1. \A j \in Items : j \in src.batch \/ j \in Records \/ Working(j) => j[2] = 1
    BY Zenon DEF Inv, WholeFiles
  <2>2. \A j \in Items : j \in src'.batch \/ j \in Records' \/ Working(j)' => j[2] = 1
    BY Zenon, <1>1, <2>1
  <2>3. ASSUME NEW u \in DOMAIN units
        PROVE  \/ <<u[1], 1>> \in Handled'
               \/ /\ ~(units'[u].dlqOk > 0)
                  /\ \/ units'[u].failed > 0 \/ units'[u].dlqFail > 0
                     \/ ~(units'[u].in > 0) /\ ~(units'[u].delivered > 0)
    <3>1. \/ <<u[1], 1>> \in Handled
          \/ /\ ~(units[u].dlqOk > 0)
             /\ \/ units[u].failed > 0 \/ units[u].dlqFail > 0
                \/ ~(units[u].in > 0) /\ ~(units[u].delivered > 0)
      BY Zenon DEF Inv, WholeFiles
    <3>2. /\ units'[u].delivered = units[u].delivered /\ units'[u].in = units[u].in
          /\ units[u].failed > 0 => units'[u].failed > 0
          /\ units[u].dlqFail > 0 => units'[u].dlqFail > 0
          /\ units'[u].dlqOk > 0 => units[u].dlqOk > 0 \/ (kind = "letters" /\ u = UnitOf(i))
      BY Zenon, ChunkCounts
    <3>3. CASE kind = "letters" /\ u = UnitOf(i)
      <4>1. i[2] = 1 /\ u = <<i[1], 0, 0>>
        BY Zenon, <1>1, <2>1, <3>3, ItemFacts
      <4>2. u[1] = i[1]
        BY <4>1
      <4>3. Datum(i) = <<u[1], 1>>
        BY Zenon, <4>1, <4>2 DEF Datum
      <4> QED
        BY Zenon, <1>4, <3>3, <4>3
    <3>4. CASE ~(kind = "letters" /\ u = UnitOf(i))
      BY Zenon, <1>1, <3>1, <3>2, <3>4
    <3> QED
      BY Zenon, <3>3, <3>4
  <2> QED
    BY Zenon, <1>2, <2>2, <2>3 DEF WholeFiles
<1>6. Files'
  BY Zenon, <1>1, <1>2, <1>3 DEF Inv, Files, Lingers
<1>7. ChunkedFiles'
  <2>1. ASSUME ~acct'.loss, ~lost, ~Failing', NEW j \in Items, Somewhere(j) PROVE Somewhere(j)'
    <3>1. kind # "aborts" /\ kind # "loses"
      BY Zenon, <1>1, <2>1 DEF ChunkStep, ProcStep
    <3>2. CASE j = i
      BY Zenon, <1>1, <1>4, <3>1, <3>2 DEF Somewhere, Kinds
    <3>3. CASE j # i
      BY Zenon, <1>1, <2>1, <3>3 DEF Somewhere
    <3> QED
      BY Zenon, <3>2, <3>3
  <2>2. reader'.unit = reader.unit /\ (Nearing("file")' => Nearing("file")) /\ (Nearing("lastFile")' => Nearing("lastFile"))
    BY Zenon, <1>3 DEF Lingers
  <2> SUFFICES ASSUME cfg.src = "sftp" PROVE ChunkedFiles'
    BY Zenon, <1>1 DEF ChunkedFiles
  <2>3. /\ \A x \in src.batch : x[3] = 0 /\ (reader.unit # <<>> => reader.unit[1] <= x[1])
        /\ \A x \in src.batch : reader.unit = <<>> \/ x[1] # reader.unit[1] =>
              \A j \in Items : j[1] = x[1] /\ j[3] = 0 => j \in src.batch
        /\ Nearing("file") => \A x \in src.batch : x[1] # reader.unit[1]
        /\ Nearing("lastFile") => src.batch = {}
    BY Zenon DEF Inv, ChunkedFiles
  <2>4. reader.unit # <<>> /\ ~acct'.loss /\ ~lost /\ ~Failing' =>
              \A j \in Items : j[1] = reader.unit[1] /\ j[3] = 0 => Somewhere(j)'
    BY Zenon, <1>1, <2>1 DEF Inv, ChunkedFiles
  <2> QED
    BY Zenon, <1>1, <2>2, <2>3, <2>4 DEF ChunkedFiles
<1> QED
  BY Zenon, <1>5, <1>6, <1>7

\* Processing a chunk keeps the invariant.
LEMMA ChunkInv ==
    ASSUME Inv, NEW i \in Items, NEW kind \in Kinds, NEW raises \in BOOLEAN, ChunkStep(i, kind, raises),
           Shape', Control'
    PROVE  Inv'
<1>1. /\ UNCHANGED <<cfg, src, lock, acked, ckpt, stop, result, lost>>
      /\ acct'.loss <=> acct.loss \/ kind = "loses"
      /\ sink'.dropped = sink.dropped
      /\ Accounted \subseteq Accounted'
      /\ Broker' <=> Broker
  BY Zenon, ChunkMoves
<1>2. Fresh' /\ BrokerUnits' /\ Coverage' /\ Located' /\ Outstanding'
  <2>1. CASE Broker
    BY Zenon, <2>1, ChunkBroker
  <2>2. CASE ~Broker
    BY Zenon, <1>1, <2>2 DEF Fresh, BrokerUnits, Coverage, Located, Outstanding
  <2> QED
    BY Zenon, <2>1, <2>2
<1>3. WholeFiles' /\ Files' /\ ChunkedFiles'
  BY Zenon, ChunkFiles
<1>4. Losses'
  <2>1. DOMAIN units' = DOMAIN units
    BY Zenon DEF ChunkStep, ProcStep
  <2>2. ASSUME NEW u \in DOMAIN units, units'[u].failed > 0 PROVE acct'.loss
    <3>1. units'[u].failed > 0 => units[u].failed > 0 \/ kind = "loses"
      BY Zenon, ChunkCounts
    <3> QED
      BY Zenon, <1>1, <2>2, <3>1 DEF Inv, Losses
  <2> QED
    BY Zenon, <1>1, <2>1, <2>2 DEF Inv, Losses
<1>5. AcksSettled' /\ CheckpointAccounted'
  BY Zenon, <1>1 DEF Inv, AcksSettled, CheckpointAccounted
<1>6. SuccessAccounted'
  BY Zenon, <1>1 DEF Inv, SuccessAccounted
<1> QED
  BY Zenon, <1>2, <1>3, <1>4, <1>5, <1>6 DEF Inv

\* A chunk of the reader keeps the invariant.
LEMMA ReaderChunkInv == ASSUME Inv, ReaderChunk PROVE Inv'
<1>1. /\ \E i \in Items, kind \in Kinds, raises \in BOOLEAN : ChunkStep(i, kind, raises)
      /\ Shape' /\ Control'
  BY Zenon, ReaderChunkFacts DEF Inv
<1> QED
  BY Zenon, <1>1, ChunkInv

\* A chunk of a worker keeps the invariant.
LEMMA WorkerChunkInv == ASSUME Inv, NEW w \in Workers, WorkerChunk(w) PROVE Inv'
<1>1. /\ \E i \in Items, kind \in Kinds, raises \in BOOLEAN : ChunkStep(i, kind, raises)
      /\ Shape' /\ Control'
  BY Zenon, WorkerChunkFacts DEF Inv
<1> QED
  BY Zenon, <1>1, ChunkInv

-----------------------------------------------------------------------------
(* A flush ends: its records are handled, lost or failed, its units know.  *)

\* What the end of a flush changes: its records leave, their units are charged.
LEMMA FlushMoves ==
    ASSUME Inv, NEW kind \in FlushKinds, NEW raises \in BOOLEAN, FlushStep(kind, raises)
    PROVE  /\ UNCHANGED <<cfg, src, acked, ckpt, stop, result>>
           /\ Records' = buf.records /\ Contributors' = buf.contributors
           /\ lock'.contributors = {}
           /\ buf'.records = buf.records /\ buf'.contributors = buf.contributors
           /\ acct'.pending = acct.pending /\ acct'.gaps = acct.gaps
           /\ acct'.loss <=> acct.loss \/ kind = "loses"
           /\ sink'.dropped = sink.dropped
           /\ sink.written \subseteq sink'.written /\ Spared \subseteq Spared'
           /\ sink.dlq \subseteq sink'.dlq
           /\ Accounted \subseteq Accounted' /\ Handled \subseteq Handled'
           /\ DOMAIN units' = DOMAIN units
           /\ kind = "crashes" => raises
           /\ Broker' <=> Broker
<1>1. /\ UNCHANGED <<cfg, src, acked, ckpt, stop, result>>
      /\ buf'.records = buf.records /\ buf'.contributors = buf.contributors
      /\ acct'.pending = acct.pending /\ acct'.gaps = acct.gaps
      /\ acct'.loss <=> acct.loss \/ kind = "loses"
      /\ sink'.dropped = sink.dropped /\ sink'.durable = sink.durable
      /\ DOMAIN units' = DOMAIN units
      /\ kind = "crashes" => raises
      /\ lock' = Free
  BY Zenon DEF FlushStep, FlushUnchanged, FlushCompletes, FlushCharges
<1>2. Free.records = {} /\ Free.contributors = {}
  BY DEF Free
<1>3. Records' = buf.records /\ Contributors' = buf.contributors /\ lock'.contributors = {}
  BY Zenon, <1>1, <1>2 DEF Records, Contributors
<1>4. /\ sink.written \subseteq sink'.written /\ Spared \subseteq Spared'
      /\ sink.dlq \subseteq sink'.dlq
  <2>1. Spared \subseteq Spared'
    BY Zenon DEF FlushStep
  <2> QED
    BY Zenon, <2>1 DEF FlushStep
<1>5. Accounted \subseteq Accounted' /\ Handled \subseteq Handled'
  BY Zenon, <1>1, <1>4 DEF Accounted, Handled
<1>6. Broker' <=> Broker
  BY Zenon, <1>1 DEF Broker
<1> QED
  BY Zenon, <1>1, <1>3, <1>4, <1>5, <1>6

\* Where a drained record goes.
LEMMA FlushRecords ==
    ASSUME Inv, NEW kind \in FlushKinds, NEW raises \in BOOLEAN, FlushStep(kind, raises), NEW i \in lock.records
    PROVE  /\ Datum(i) \in NoMatch /\ kind # "crashes" => Datum(i) \in Spared'
           /\ Datum(i) \notin NoMatch => Selected(lock.records) # {}
           /\ Datum(i) \notin NoMatch /\ kind = "writes" => Datum(i) \in sink'.written
           /\ Datum(i) \notin NoMatch /\ kind = "letters" => Datum(i) \in sink'.dlq
           /\ kind = "swallows" => Datum(i) \in Spared'
           /\ kind \in {"writes", "letters", "swallows"} => Datum(i) \in Handled'
<1>1. /\ sink'.written = IF kind = "writes" THEN sink.written \union DataOf(Selected(lock.records)) ELSE sink.written
      /\ sink'.dlq = IF kind = "letters" THEN sink.dlq \union DataOf(Selected(lock.records)) ELSE sink.dlq
      /\ kind = "swallows" => Spared' = Spared \union DataOf(lock.records)
      /\ kind \notin {"crashes", "swallows"} => Spared' = Spared \union Unselected
  BY Zenon DEF FlushStep
<1>2. Datum(i) \in DataOf(lock.records) /\ (kind = "swallows" => Datum(i) \in Spared')
  <2>1. Datum(i) \in DataOf(lock.records)
    BY Zenon DEF DataOf
  <2> QED
    BY Zenon, <1>1, <2>1
<1>3. CASE Datum(i) \in NoMatch
  <2>1. Datum(i) \in Unselected
    BY Zenon, <1>2, <1>3 DEF Unselected
  <2>2. kind # "crashes" => Datum(i) \in Spared'
    BY Zenon, <1>1, <1>2, <2>1
  <2> QED
    BY Zenon, <1>2, <1>3, <2>2 DEF Handled
<1>4. CASE Datum(i) \notin NoMatch
  <2>1. i \in Selected(lock.records)
    BY Zenon, <1>4 DEF Selected
  <2>2. PICK S : S = Selected(lock.records) /\ i \in S
    BY Zenon, <2>1
  <2>3. Datum(i) \in DataOf(S) /\ S # {}
    BY Zenon, <2>2 DEF DataOf
  <2>4. /\ kind = "writes" => Datum(i) \in sink'.written
        /\ kind = "letters" => Datum(i) \in sink'.dlq
    BY Zenon, <1>1, <2>2, <2>3
  <2> QED
    BY Zenon, <1>2, <1>4, <2>2, <2>3, <2>4 DEF Handled
<1> QED
  BY Zenon, <1>3, <1>4

\* The counts of a broker unit after a flush.
LEMMA FlushUnits ==
    ASSUME Inv, NEW kind \in FlushKinds, NEW raises \in BOOLEAN, FlushStep(kind, raises), Broker,
           NEW u \in DOMAIN units
    PROVE  /\ Good(u)'
           /\ Excused(u) => Excused(u)'
           /\ ~raises /\ Joined(u) => Excused(u)'
           /\ units'[u].failed > 0 => units[u].failed > 0 \/ kind = "loses"
<1>1. /\ sink.written \subseteq sink'.written /\ Spared \subseteq Spared'
      /\ sink.dlq \subseteq sink'.dlq
      /\ kind = "crashes" => raises
      /\ cfg' = cfg
  BY Zenon, FlushMoves
<1>2. /\ Good(u)
      /\ \A x \in Contributors : x[1] \in DOMAIN units /\ ~x[2] => Excused(x[1])
      /\ \A x \in lock.contributors : x[2] => x[1] \in lock.records
  BY Zenon DEF Inv, BrokerUnits
<1>3. \/ units'[u] = units[u] /\ (raises \/ ~Joined(u) \/ <<u, FALSE>> \in lock.contributors)
      \/ ~raises /\ <<u, TRUE>> \in lock.contributors /\ Shares(units[u], units'[u], u, kind)
  BY Zenon DEF FlushStep, FlushCharges
<1>4. CASE units'[u] = units[u] /\ (raises \/ ~Joined(u) \/ <<u, FALSE>> \in lock.contributors)
  <2>1. Good(u)' /\ (Excused(u) => Excused(u)')
    BY Zenon, <1>1, <1>2, <1>4 DEF Good, Excused
  <2>2. <<u, FALSE>> \in lock.contributors => Excused(u)
    <3>1. <<u, FALSE>>[1] = u /\ <<u, FALSE>>[2] = FALSE
      BY Zenon
    <3>2. <<u, FALSE>> \in lock.contributors => <<u, FALSE>> \in Contributors
      BY Zenon DEF Contributors
    <3> QED
      BY Zenon, <1>2, <3>1, <3>2
  <2> QED
    BY Zenon, <1>4, <2>1, <2>2
<1>5. CASE ~raises /\ <<u, TRUE>> \in lock.contributors /\ Shares(units[u], units'[u], u, kind)
  <2>1. u \in lock.records
    <3>1. <<u, TRUE>>[1] = u /\ <<u, TRUE>>[2] = TRUE
      BY Zenon
    <3> QED
      BY Zenon, <1>2, <1>5, <3>1
  <2>2. /\ Datum(u) \in NoMatch /\ kind # "crashes" => Datum(u) \in Spared'
        /\ Datum(u) \notin NoMatch => Selected(lock.records) # {}
        /\ Datum(u) \notin NoMatch /\ kind = "writes" => Datum(u) \in sink'.written
        /\ Datum(u) \notin NoMatch /\ kind = "letters" => Datum(u) \in sink'.dlq
        /\ kind = "swallows" => Datum(u) \in Spared'
    BY Zenon, <2>1, FlushRecords
  <2>3. units'[u].delivered > 0 => Datum(u) \in sink'.written
    BY Zenon, <1>1, <1>2, <1>5, <2>2 DEF Shares, Good
  <2>4. units'[u].dlqOk > 0 => Datum(u) \in sink'.dlq \union Spared'
    BY Zenon, <1>1, <1>2, <1>5, <2>2 DEF Shares, Good
  <2>5. Excused(u) => Excused(u)'
    BY Zenon, <1>1, <1>5 DEF Shares, Excused
  <2>6. Excused(u)'
    <3>1. CASE kind = "writes"
      BY Zenon, <1>5, <2>2, <3>1 DEF Shares, Excused
    <3>2. CASE kind = "letters"
      BY Zenon, <1>5, <3>2 DEF Shares, Excused
    <3>3. CASE kind = "loses"
      BY Zenon, <1>5, <3>3 DEF Shares, Excused
    <3>4. CASE kind = "swallows"
      BY Zenon, <2>2, <3>4 DEF Excused
    <3> QED
      BY Zenon, <1>1, <1>5, <3>1, <3>2, <3>3, <3>4 DEF FlushKinds
  <2>7. units'[u].failed > 0 => units[u].failed > 0 \/ kind = "loses"
    BY Zenon, <1>5 DEF Shares
  <2> QED
    BY Zenon, <2>3, <2>4, <2>5, <2>6, <2>7 DEF Good
<1> QED
  BY Zenon, <1>3, <1>4, <1>5

\* The end of a flush keeps the conjuncts about records.
LEMMA FlushBroker ==
    ASSUME Inv, NEW kind \in FlushKinds, NEW raises \in BOOLEAN, FlushStep(kind, raises), Broker
    PROVE  Fresh' /\ BrokerUnits' /\ Coverage' /\ Located' /\ Outstanding'
<1>1. /\ UNCHANGED <<cfg, src, acked, ckpt, stop, result>>
      /\ Contributors' = buf.contributors /\ lock'.contributors = {}
      /\ buf'.records = buf.records /\ buf'.contributors = buf.contributors
      /\ acct'.pending = acct.pending /\ acct'.gaps = acct.gaps
      /\ Accounted \subseteq Accounted'
      /\ DOMAIN units' = DOMAIN units
      /\ Broker'
  BY Zenon, FlushMoves
<1>2. /\ \A x \in Items : Working(x)' <=> Working(x)
      /\ Lingers
      /\ Failing => Failing'
      /\ lost => lost'
      /\ raises => Failing' \/ lost'
  BY Zenon, FlushThreads DEF Inv
<1>3. /\ \A u : Contributes(u)' => Contributes(u)
      /\ \A u : Contributes(u) => Contributes(u)' \/ Joined(u)
  BY Zenon, <1>1 DEF Contributes, Contributors, Joined
<1>4. /\ raises => buf'.completed = buf.completed
      /\ ~raises => buf'.completed = buf.completed \union {u \in DOMAIN units : Joined(u)}
  BY Zenon DEF FlushStep, FlushCompletes
<1>5. /\ buf.completed \subseteq buf'.completed
      /\ \A u \in buf'.completed : u \in buf.completed \/ (~raises /\ u \in DOMAIN units /\ Joined(u))
      /\ ~raises => \A u \in DOMAIN units : Joined(u) => u \in buf'.completed
  BY Zenon, <1>4
<1>6. Fresh'
  <2>1. \A u \in Items : Seen(u)' => Seen(u)
    BY Zenon, <1>1, <1>2, <1>3, <1>5 DEF Seen
  <2> QED
    BY Zenon, <1>1, <2>1 DEF Inv, Fresh
<1>7. \A u \in DOMAIN units : /\ Good(u)'
                              /\ Excused(u) => Excused(u)'
                              /\ ~raises /\ Joined(u) => Excused(u)'
  BY Zenon, FlushUnits
<1>8. BrokerUnits'
  <2>1. ASSUME NEW x \in Contributors', x[1] \in DOMAIN units, ~x[2] PROVE Excused(x[1])'
    BY Zenon, <1>1, <1>7, <2>1 DEF Inv, BrokerUnits, Contributors
  <2>2. \A x \in buf'.contributors : x[2] => x[1] \in buf'.records
    BY Zenon, <1>1 DEF Inv, BrokerUnits
  <2>3. buf.completed \subseteq DOMAIN units
    BY Zenon DEF Inv, BrokerUnits
  <2>4. ASSUME NEW u \in buf'.completed PROVE Excused(u)'
    BY Zenon, <1>5, <1>7, <2>3, <2>4 DEF Inv, BrokerUnits
  <2>5. buf'.completed \subseteq DOMAIN units
    BY Zenon, <1>5, <2>3
  <2> QED
    BY Zenon, <1>1, <1>7, <2>1, <2>2, <2>4, <2>5 DEF BrokerUnits
<1>9. /\ \A d : HasUnit(d)' <=> HasUnit(d)
      /\ \A p, o : Covered(p, o) => Covered(p, o)'
  <2>1. \A d : HasUnit(d)' <=> HasUnit(d)
    BY Zenon, <1>1 DEF HasUnit
  <2> QED
    BY Zenon, <1>1, <2>1 DEF Covered
<1>10. Coverage'
  BY Zenon, <1>1, <1>9 DEF Inv, Coverage
<1>11. Located'
  <2>1. DOMAIN units \subseteq Items
    BY Zenon DEF Inv, Shape, DataShape
  <2> QED
    BY Zenon, <1>1, <1>2, <1>3, <1>5, <2>1 DEF Inv, Located
<1>12. Outstanding'
  <2>1. \A d \in Data : d[2] <= src.position[d[1]] =>
          d \in acked \/ <<d[1], d[2], src.epoch>> \in src.batch \/ HasUnit(d)' \/ acct.pending
    BY Zenon, <1>9 DEF Inv, Outstanding
  <2>2. reader'.at = "close" /\ ~lost' => DOMAIN units = {}
    BY Zenon, <1>2 DEF Inv, Outstanding, Lingers
  <2> QED
    BY Zenon, <1>1, <2>1, <2>2 DEF Outstanding
<1> QED
  BY Zenon, <1>6, <1>8, <1>10, <1>11, <1>12

\* The end of a flush keeps the conjuncts about files.
LEMMA FlushFiles ==
    ASSUME Inv, NEW kind \in FlushKinds, NEW raises \in BOOLEAN, FlushStep(kind, raises)
    PROVE  WholeFiles' /\ Files' /\ ChunkedFiles'
<1>1. /\ UNCHANGED <<cfg, src, acked, ckpt, stop, result>>
      /\ Records' = buf.records
      /\ acct'.loss <=> acct.loss \/ kind = "loses"
      /\ Handled \subseteq Handled'
      /\ DOMAIN units' = DOMAIN units
      /\ kind = "crashes" => raises
      /\ Broker' <=> Broker
  BY Zenon, FlushMoves
<1>2. /\ \A x \in Items : Working(x)' <=> Working(x)
      /\ Lingers
      /\ Failing => Failing'
      /\ lost => lost'
      /\ raises => Failing' \/ lost'
  BY Zenon, FlushThreads DEF Inv
<1>3. lock.records \subseteq Items /\ lock.records \subseteq Records
  BY Zenon DEF Inv, Shape, BufferShape, Locks, Records
<1>4. \A i \in lock.records : kind \in {"writes", "letters", "swallows"} => Datum(i) \in Handled'
  BY Zenon, FlushRecords
<1>5. WholeFiles'
  <2> SUFFICES ASSUME ~Broker, cfg.src # "sftp" PROVE WholeFiles'
    BY Zenon, <1>1 DEF WholeFiles
  <2>1. \A j \in Items : j \in src.batch \/ j \in Records \/ Working(j) => j[2] = 1
    BY Zenon DEF Inv, WholeFiles
  <2>2. \A j \in Items : j \in src'.batch \/ j \in Records' \/ Working(j)' => j[2] = 1
    BY Zenon, <1>1, <1>2, <2>1 DEF Records
  <2>3. ASSUME NEW u \in DOMAIN units
        PROVE  \/ <<u[1], 1>> \in Handled'
               \/ /\ ~(units'[u].dlqOk > 0)
                  /\ \/ units'[u].failed > 0 \/ units'[u].dlqFail > 0
                     \/ ~(units'[u].in > 0) /\ ~(units'[u].delivered > 0)
    <3>1. \/ <<u[1], 1>> \in Handled
          \/ /\ ~(units[u].dlqOk > 0)
             /\ \/ units[u].failed > 0 \/ units[u].dlqFail > 0
                \/ ~(units[u].in > 0) /\ ~(units[u].delivered > 0)
      BY Zenon DEF Inv, WholeFiles
    <3>2. \/ units'[u] = units[u]
          \/ \E i \in lock.records :
                /\ u = UnitOf(i) /\ kind # "crashes"
                /\ kind = "loses" => units'[u].failed > 0 \/ units'[u].dlqFail > 0
                /\ units'[u].dlqOk > 0 => units[u].dlqOk > 0 \/ kind = "letters"
      BY Zenon DEF FlushStep, FlushCharges
    <3>3. CASE units'[u] = units[u]
      BY Zenon, <1>1, <3>1, <3>3
    <3>4. CASE \E i \in lock.records :
                /\ u = UnitOf(i) /\ kind # "crashes"
                /\ kind = "loses" => units'[u].failed > 0 \/ units'[u].dlqFail > 0
                /\ units'[u].dlqOk > 0 => units[u].dlqOk > 0 \/ kind = "letters"
      <4>1. PICK i \in lock.records :
                /\ u = UnitOf(i) /\ kind # "crashes"
                /\ kind = "loses" => units'[u].failed > 0 \/ units'[u].dlqFail > 0
                /\ units'[u].dlqOk > 0 => units[u].dlqOk > 0 \/ kind = "letters"
        BY Zenon, <3>4
      <4>2. i[2] = 1 /\ u = <<i[1], 0, 0>>
        BY Zenon, <1>3, <2>1, <4>1, ItemFacts
      <4>3. u[1] = i[1]
        BY <4>2
      <4>4. Datum(i) = <<u[1], 1>>
        BY Zenon, <4>2, <4>3 DEF Datum
      <4>5. CASE kind \in {"writes", "letters", "swallows"}
        BY Zenon, <1>4, <4>4, <4>5
      <4>6. CASE kind = "loses"
        BY Zenon, <1>1, <3>1, <4>1, <4>6
      <4> QED
        BY Zenon, <1>1, <4>1, <4>5, <4>6 DEF FlushKinds
    <3> QED
      BY Zenon, <3>2, <3>3, <3>4
  <2> QED
    BY Zenon, <1>1, <2>2, <2>3 DEF WholeFiles
<1>6. Files'
  BY Zenon, <1>1, <1>2 DEF Inv, Files, Lingers
<1>7. ChunkedFiles'
  <2>1. ASSUME ~acct'.loss, ~lost', ~Failing', NEW j \in Items, Somewhere(j) PROVE Somewhere(j)'
    <3>1. kind \in {"writes", "letters", "swallows"}
      BY Zenon, <1>1, <1>2, <2>1 DEF FlushKinds
    <3>2. CASE j \in lock.records
      BY Zenon, <1>4, <3>1, <3>2 DEF Somewhere
    <3>3. CASE j \notin lock.records
      <4>1. j \in Records => j \in Records'
        BY Zenon, <1>1, <3>3 DEF Records
      <4> QED
        BY Zenon, <1>1, <1>2, <2>1, <4>1 DEF Somewhere
    <3> QED
      BY Zenon, <3>2, <3>3
  <2>2. reader'.unit = reader.unit /\ (Nearing("file")' => Nearing("file")) /\ (Nearing("lastFile")' => Nearing("lastFile"))
    BY Zenon, <1>2 DEF Lingers
  <2> SUFFICES ASSUME cfg.src = "sftp" PROVE ChunkedFiles'
    BY Zenon, <1>1 DEF ChunkedFiles
  <2>3. /\ \A x \in src.batch : x[3] = 0 /\ (reader.unit # <<>> => reader.unit[1] <= x[1])
        /\ \A x \in src.batch : reader.unit = <<>> \/ x[1] # reader.unit[1] =>
              \A j \in Items : j[1] = x[1] /\ j[3] = 0 => j \in src.batch
        /\ Nearing("file") => \A x \in src.batch : x[1] # reader.unit[1]
        /\ Nearing("lastFile") => src.batch = {}
    BY Zenon DEF Inv, ChunkedFiles
  <2>4. reader.unit # <<>> /\ ~acct'.loss /\ ~lost' /\ ~Failing' =>
              \A j \in Items : j[1] = reader.unit[1] /\ j[3] = 0 => Somewhere(j)'
    BY Zenon, <1>1, <1>2, <2>1 DEF Inv, ChunkedFiles
  <2> QED
    BY Zenon, <1>1, <2>2, <2>3, <2>4 DEF ChunkedFiles
<1> QED
  BY Zenon, <1>5, <1>6, <1>7

\* The end of a flush keeps the invariant.
LEMMA FlushEndsInv == ASSUME Inv, FlushEnds PROVE Inv'
<1>1. PICK kind \in FlushKinds, raises \in BOOLEAN : FlushStep(kind, raises)
  BY Zenon, FlushFacts DEF Inv, FlushKinds
<1>2. /\ UNCHANGED <<cfg, src, acked, ckpt, stop, result>>
      /\ acct'.loss <=> acct.loss \/ kind = "loses"
      /\ sink'.dropped = sink.dropped
      /\ Accounted \subseteq Accounted'
      /\ DOMAIN units' = DOMAIN units
      /\ Broker' <=> Broker
  BY Zenon, <1>1, FlushMoves
<1>3. Shape' /\ Control' /\ (lost => lost')
  BY Zenon, <1>1, FlushThreads DEF Inv
<1>4. Fresh' /\ BrokerUnits' /\ Coverage' /\ Located' /\ Outstanding'
  <2>1. CASE Broker
    BY Zenon, <1>1, <2>1, FlushBroker
  <2>2. CASE ~Broker
    BY Zenon, <1>2, <2>2 DEF Fresh, BrokerUnits, Coverage, Located, Outstanding
  <2> QED
    BY Zenon, <2>1, <2>2
<1>5. WholeFiles' /\ Files' /\ ChunkedFiles'
  BY Zenon, <1>1, FlushFiles
<1>6. Losses'
  <2>1. ASSUME NEW u \in DOMAIN units, units'[u].failed > 0 PROVE acct'.loss
    <3>1. units[u].failed > 0 \/ kind = "loses"
      <4>1. CASE Broker
        BY Zenon, <1>1, <2>1, <4>1, FlushUnits
      <4>2. CASE ~Broker
        <5>1. \/ units'[u] = units[u]
              \/ units'[u].failed > 0 => units[u].failed > 0 \/ kind = "loses"
          BY Zenon, <1>1, <4>2 DEF FlushStep, FlushCharges
        <5> QED
          BY Zenon, <2>1, <5>1
      <4> QED
        BY Zenon, <4>1, <4>2
    <3> QED
      BY Zenon, <1>2, <3>1 DEF Inv, Losses
  <2> QED
    BY Zenon, <1>2, <2>1 DEF Inv, Losses
<1>7. AcksSettled' /\ CheckpointAccounted'
  BY Zenon, <1>2, <1>3 DEF Inv, AcksSettled, CheckpointAccounted
<1>8. SuccessAccounted'
  BY Zenon, <1>2, <1>3 DEF Inv, SuccessAccounted
<1> QED
  BY Zenon, <1>3, <1>4, <1>5, <1>6, <1>7, <1>8 DEF Inv

-----------------------------------------------------------------------------
(* A cohort is decided.                                                    *)

\* Before the last decision nothing is in the pipeline any more.
LEMMA TailCompleted ==
    ASSUME Inv, reader.at = "tail", Broker, ~lost PROVE DOMAIN units \subseteq buf.completed
<1>1. AllIdle /\ lock = Free /\ ~Buffered /\ reader.then # "failed"
  BY Zenon DEF Inv, Control, Towards
<1>2. ~Failing
  BY Zenon, <1>1 DEF Failing, AllIdle
<1>3. \A u : ~Working(u)
  <2>1. queue = <<>> /\ \A w \in Workers : worker[w] = Idle
    BY Zenon, <1>1 DEF AllIdle
  <2>2. \A u : ~Among(queue, u)
    <3>1. DOMAIN queue = {}
      BY <2>1
    <3> QED
      BY Zenon, <3>1 DEF Among
  <2> QED
    BY Zenon, <2>1, <2>2, IdleThread DEF Working
<1>4. \A u : ~Contributes(u)
  <2>1. Free.contributors = {}
    BY DEF Free
  <2>2. Contributors = {}
    BY Zenon, <1>1, <2>1 DEF Contributors, Buffered
  <2> QED
    BY Zenon, <2>2 DEF Contributes
<1> QED
  BY Zenon, <1>2, <1>3, <1>4 DEF Inv, Located

\* A completed unit is settled by the decision, or leaves a gap.
LEMMA DecisionSettles ==
    ASSUME Inv, Broker, NEW ok, NEW clean, DecisionStep(ok, clean), NEW u \in buf.completed
    PROVE  Datum(u) \in Accounted' \/ acct'.gaps[u[1]] <= u[2]
<1>1. (ok /\ Decided(u)) \/ acct'.gaps[u[1]] <= u[2]
  BY Zenon DEF DecisionStep
<1>2. ASSUME ok, Decided(u) PROVE Datum(u) \in Accounted'
  <2>1. u \in DOMAIN units /\ Good(u) /\ Excused(u)
    BY Zenon DEF Inv, BrokerUnits
  <2>2. units[u] \in Counts
    BY Zenon, <2>1 DEF Inv, Shape, DataShape
  <2>3. \/ Datum(u) \in sink.written \union Spared \union sink.dlq
        \/ Disposition(units[u]) = "dropped"
    BY Zenon, <1>2, <2>1, <2>2, DecidedIsSettled
  <2>4. /\ Spared' = Spared /\ sink'.dlq = sink.dlq
        /\ sink'.durable = sink.durable \union sink.written
        /\ sink'.dropped = sink.dropped \union DataOf(Dispositions(buf.completed, "dropped"))
    BY Zenon, <1>2 DEF DecisionStep
  <2>5. CASE Datum(u) \in sink.written \union Spared \union sink.dlq
    BY Zenon, <2>4, <2>5 DEF Accounted
  <2>6. CASE Disposition(units[u]) = "dropped"
    <3>1. u \in Dispositions(buf.completed, "dropped")
      BY Zenon, <2>6 DEF Dispositions
    <3>2. PICK S : S = Dispositions(buf.completed, "dropped") /\ u \in S
      BY Zenon, <3>1
    <3>3. Datum(u) \in DataOf(S)
      BY Zenon, <3>2 DEF DataOf
    <3> QED
      BY Zenon, <2>4, <3>2, <3>3 DEF Accounted
  <2> QED
    BY Zenon, <2>3, <2>5, <2>6
<1> QED
  BY Zenon, <1>1, <1>2

\* What is settled stays settled, what is covered stays covered.
LEMMA DecisionCovers ==
    ASSUME Inv, Broker, NEW ok, NEW clean, DecisionStep(ok, clean)
    PROVE  /\ Accounted \subseteq Accounted'
           /\ \A p \in Keys : \A o \in 1..Length : Covered(p, o) => Covered(p, o)'
<1>1. /\ Spared' = Spared /\ sink'.dlq = sink.dlq
      /\ sink.durable \subseteq sink'.durable /\ sink.dropped \subseteq sink'.dropped
  <2>1. /\ Spared' = Spared /\ sink'.dlq = sink.dlq
        /\ sink'.durable = IF ok THEN sink.durable \union sink.written ELSE sink.durable
        /\ sink'.dropped = IF ok THEN sink.dropped \union DataOf(Dispositions(buf.completed, "dropped"))
                           ELSE sink.dropped
    BY Zenon DEF DecisionStep
  <2> QED
    BY Zenon, <2>1
<1>2. Accounted \subseteq Accounted'
  BY Zenon, <1>1 DEF Accounted
<1>3. ASSUME NEW p \in Keys, NEW o \in 1..Length, Covered(p, o) PROVE Covered(p, o)'
  <2>1. CASE <<p, o>> \in Accounted
    BY Zenon, <1>2, <2>1 DEF Covered
  <2>2. CASE HasUnit(<<p, o>>)
    <3>1. PICK v \in DOMAIN units : Datum(v) = <<p, o>>
      BY Zenon, <2>2 DEF HasUnit
    <3>2. CASE v \in buf.completed
      <4>1. v[1] = p /\ v[2] = o
        BY <3>1 DEF Datum
      <4>2. Datum(v) \in Accounted' \/ acct'.gaps[v[1]] <= v[2]
        BY Zenon, <1>3, <3>2, DecisionSettles
      <4> QED
        BY Zenon, <3>1, <4>1, <4>2 DEF Covered
    <3>3. CASE v \notin buf.completed
      <4>1. v \in DOMAIN units'
        BY Zenon, <3>3 DEF DecisionStep
      <4> QED
        BY Zenon, <3>1, <4>1 DEF Covered, HasUnit
    <3> QED
      BY Zenon, <3>2, <3>3
  <2>3. CASE acct.gaps[p] <= o
    <3>1. acct'.gaps[p] <= acct.gaps[p] /\ acct' \in Accounts /\ acct \in Accounts
      BY Zenon DEF DecisionStep, Inv, Shape, DataShape
    <3>2. acct'.gaps[p] \in Nat /\ acct.gaps[p] \in Nat
      BY Zenon, <3>1 DEF Accounts
    <3>3. acct'.gaps[p] <= o
      BY <2>3, <3>1, <3>2
    <3> QED
      BY Zenon, <3>3 DEF Covered
  <2> QED
    BY Zenon, <1>3, <2>1, <2>2, <2>3 DEF Covered
<1> QED
  BY Zenon, <1>2, <1>3

\* The checkpoint of a clean cohort passes only settled records.
LEMMA DecisionCheckpoint ==
    ASSUME Inv, Broker, ~Held, NEW ok, NEW clean, DecisionStep(ok, clean), cfg' = cfg
    PROVE  CheckpointAccounted' /\ AcksSettled'
<1>1. Accounted \subseteq Accounted'
  BY Zenon, DecisionCovers
<1>2. ASSUME clean, NEW u \in buf.completed PROVE Datum(u) \in Accounted' /\ ~(acct'.gaps[u[1]] <= u[2])
  BY Zenon, <1>2, DecisionSettles DEF DecisionStep
<1>3. buf.completed \subseteq DOMAIN units /\ buf.completed \subseteq Items /\ Broker'
  BY Zenon DEF Inv, BrokerUnits, Shape, BufferShape, Buffers, Broker
<1>4. ASSUME clean, NEW u \in buf.completed, NEW o \in 1..Length, o <= u[2] PROVE <<u[1], o>> \in Accounted'
  <2>1. u[1] \in Keys /\ u[2] \in 1..Length
    BY Zenon, <1>3, ItemFacts
  <2>2. CASE o = u[2]
    BY Zenon, <1>2, <1>4, <2>2 DEF Datum
  <2>3. CASE o < u[2]
    <3>1. Covered(u[1], o)
      BY Zenon, <1>3, <2>3 DEF Inv, Coverage
    <3>2. CASE <<u[1], o>> \in Accounted
      BY Zenon, <1>1, <3>2
    <3>3. CASE HasUnit(<<u[1], o>>)
      <4>1. PICK v \in DOMAIN units : Datum(v) = <<u[1], o>>
        BY Zenon, <3>3 DEF HasUnit
      <4>2. v[1] = u[1] /\ v[2] = o
        BY <4>1 DEF Datum
      <4>3. v[2] < u[2]
        BY Zenon, <2>3, <4>2
      <4>4. v \in buf.completed
        BY Zenon, <4>2, <4>3 DEF Held
      <4> QED
        BY Zenon, <1>2, <1>4, <4>1, <4>4
    <3>4. CASE acct.gaps[u[1]] <= o
      <4>1. acct'.gaps[u[1]] <= acct.gaps[u[1]] /\ acct' \in Accounts /\ acct \in Accounts
        BY Zenon, <2>1 DEF DecisionStep, Inv, Shape, DataShape
      <4>2. acct'.gaps[u[1]] \in Nat /\ acct.gaps[u[1]] \in Nat
        BY Zenon, <2>1, <4>1 DEF Accounts
      <4>3. acct'.gaps[u[1]] <= u[2]
        BY <2>1, <2>3, <3>4, <4>1, <4>2
      <4> QED
        BY Zenon, <1>2, <1>4, <4>3
    <3> QED
      BY Zenon, <3>1, <3>2, <3>3, <3>4 DEF Covered
  <2> QED
    BY <1>4, <2>1, <2>2, <2>3
<1>5. CheckpointAccounted'
  <2>1. ASSUME NEW p \in Keys, NEW o \in 1..Length, o <= ckpt'[p] PROVE <<p, o>> \in Accounted'
    <3>1. CASE ckpt'[p] = ckpt[p]
      BY Zenon, <1>1, <2>1, <3>1 DEF Inv, CheckpointAccounted
    <3>2. CASE clean /\ \E u \in buf.completed : u[1] = p /\ ckpt'[p] = u[2]
      BY Zenon, <1>4, <2>1, <3>2
    <3> QED
      BY Zenon, <3>1, <3>2 DEF DecisionStep
  <2> QED
    BY Zenon, <2>1 DEF CheckpointAccounted
<1>6. AcksSettled'
  <2>1. cfg.src # "sftp"
    BY Zenon DEF Broker
  <2>2. acked \subseteq Accounted'
    BY Zenon, <1>1, <2>1 DEF Inv, AcksSettled
  <2>3. clean => DataOf(buf.completed) \subseteq Accounted'
    BY Zenon, <1>2 DEF DataOf
  <2>4. acked' \subseteq Accounted'
    BY Zenon, <2>2, <2>3 DEF DecisionStep
  <2> QED
    BY Zenon, <2>4 DEF AcksSettled
<1> QED
  BY Zenon, <1>5, <1>6

\* A decision keeps the conjuncts about the units that remain.
LEMMA DecisionUnits ==
    ASSUME Inv, Broker, NEW ok, NEW clean, DecisionStep(ok, clean), Decision
    PROVE  Fresh' /\ BrokerUnits' /\ Losses' /\ Coverage' /\ Located'
<1>1. /\ UNCHANGED <<cfg, src, lock, lost>>
      /\ \A i \in Items : Working(i)' <=> Working(i)
      /\ Failing => Failing'
      /\ Broker'
  BY Zenon DEF Decision, Broker
<1>2. /\ DOMAIN units' = DOMAIN units \ buf.completed
      /\ \A v \in DOMAIN units' : units'[v] = units[v]
      /\ buf'.records = buf.records /\ buf'.contributors = buf.contributors /\ buf'.completed = {}
      /\ acct'.loss <=> acct.loss
      /\ sink'.written = sink.written /\ Spared' = Spared /\ sink'.dlq = sink.dlq
      /\ sink'.dropped = IF ok THEN sink.dropped \union DataOf(Dispositions(buf.completed, "dropped")) ELSE sink.dropped
  BY Zenon DEF DecisionStep
<1>3. Contributors' = Contributors /\ \A u : Contributes(u)' <=> Contributes(u)
  BY Zenon, <1>1, <1>2 DEF Contributors, Contributes
<1>4. Fresh'
  <2>1. \A u \in Items : Seen(u)' => Seen(u)
    BY Zenon, <1>1, <1>2, <1>3 DEF Seen
  <2> QED
    BY Zenon, <1>1, <2>1 DEF Inv, Fresh
<1>5. BrokerUnits'
  <2>1. \A u \in DOMAIN units' : (Good(u)' <=> Good(u)) /\ (Excused(u)' <=> Excused(u)) /\ u \in DOMAIN units
    BY Zenon, <1>2 DEF Good, Excused
  <2>2. \A u \in DOMAIN units' : Good(u)'
    BY Zenon, <2>1 DEF Inv, BrokerUnits
  <2>3. \A x \in Contributors : x[1] \in DOMAIN units' /\ ~x[2] => Excused(x[1])'
    BY Zenon, <2>1 DEF Inv, BrokerUnits
  <2>4. /\ \A x \in buf.contributors : x[2] => x[1] \in buf.records
        /\ \A x \in lock.contributors : x[2] => x[1] \in lock.records
    BY Zenon DEF Inv, BrokerUnits
  <2>5. /\ buf'.completed \subseteq DOMAIN units'
        /\ \A u \in buf'.completed : Excused(u)'
    BY Zenon, <1>2
  <2> QED
    BY Zenon, <1>1, <1>2, <1>3, <2>2, <2>3, <2>4, <2>5 DEF BrokerUnits
<1>6. Losses'
  <2>1. \A u \in DOMAIN units' : units'[u].failed > 0 => acct.loss
    BY Zenon, <1>2 DEF Inv, Losses
  <2>2. ASSUME sink'.dropped # {} PROVE acct.loss /\ cfg.onError = "continue"
    <3>1. CASE sink.dropped # {}
      BY Zenon, <3>1 DEF Inv, Losses
    <3>2. CASE sink.dropped = {}
      <4>1. PICK u \in buf.completed : Disposition(units[u]) = "dropped"
        BY Zenon, <1>2, <2>2, <3>2 DEF DataOf, Dispositions
      <4>2. u \in DOMAIN units /\ units[u] \in Counts
        BY Zenon DEF Inv, BrokerUnits, Shape, DataShape
      <4>3. units[u].failed > 0 /\ cfg.onError = "continue"
        BY Zenon, <4>1, <4>2, DispositionFacts
      <4> QED
        BY Zenon, <4>2, <4>3 DEF Inv, Losses
    <3> QED
      BY Zenon, <3>1, <3>2
  <2> QED
    BY Zenon, <1>1, <1>2, <2>1, <2>2 DEF Losses
<1>7. Coverage'
  <2>1. \A p \in Keys : \A o \in 1..Length : Covered(p, o) => Covered(p, o)'
    BY Zenon, DecisionCovers
  <2>2. \A u \in DOMAIN units' : u \in DOMAIN units /\ u[1] \in Keys
    BY Zenon, <1>2, ItemFacts DEF Inv, Shape, DataShape
  <2> QED
    BY Zenon, <1>1, <2>1, <2>2 DEF Inv, Coverage
<1>8. Located'
  <2>1. DOMAIN units \subseteq Items
    BY Zenon DEF Inv, Shape, DataShape
  <2> QED
    BY Zenon, <1>1, <1>2, <1>3, <2>1 DEF Inv, Located
<1> QED
  BY Zenon, <1>4, <1>5, <1>6, <1>7, <1>8

\* A decision forgets no unit without an acknowledgement or a pending mark.
LEMMA DecisionOutstanding ==
    ASSUME Inv, Broker, NEW ok, NEW clean, DecisionStep(ok, clean), Decision
    PROVE  Outstanding'
<1>1. /\ UNCHANGED <<cfg, src, lost>> /\ (reader'.at = "close" => reader.at = "tail")
  BY Zenon DEF Decision
<1>2. /\ DOMAIN units' = DOMAIN units \ buf.completed
      /\ acct.pending => acct'.pending
      /\ acked \subseteq acked'
      /\ ~acct'.pending => DataOf(buf.completed) \subseteq acked'
  BY Zenon DEF DecisionStep
<1>3. ASSUME NEW d \in Data, HasUnit(d) PROVE d \in acked' \/ HasUnit(d)' \/ acct'.pending
  <2>1. PICK v \in DOMAIN units : Datum(v) = d
    BY Zenon, <1>3 DEF HasUnit
  <2>2. CASE v \in buf.completed
    BY Zenon, <1>2, <2>1, <2>2 DEF DataOf
  <2>3. CASE v \notin buf.completed
    BY Zenon, <1>2, <2>1, <2>3 DEF HasUnit
  <2> QED
    BY Zenon, <2>2, <2>3
<1>4. \A d \in Data : d[2] <= src.position[d[1]] =>
          d \in acked' \/ <<d[1], d[2], src.epoch>> \in src.batch \/ HasUnit(d)' \/ acct'.pending
  BY Zenon, <1>2, <1>3 DEF Inv, Outstanding
<1>5. reader'.at = "close" /\ ~lost => DOMAIN units' = {}
  BY Zenon, <1>1, <1>2, TailCompleted
<1> QED
  BY Zenon, <1>1, <1>4, <1>5 DEF Outstanding

\* The commit raises.
LEMMA AbandonsInv ==
    ASSUME Inv, Decision, Abandons, Shape', Control' PROVE Inv'
<1>1. /\ UNCHANGED <<cfg, src, lock, lost, result, units, acct, sink, acked, ckpt>>
      /\ \A i \in Items : Working(i)' <=> Working(i)
      /\ ~Nearing("file")' /\ ~Nearing("lastFile")' /\ reader'.unit = reader.unit
      /\ buf'.records = buf.records /\ buf'.contributors = buf.contributors /\ buf'.completed = {}
      /\ Broker /\ Broker' /\ Failing' /\ reader'.at # "close"
  <2>1. reader'.then = "failed" => reader'.at # "close"
    BY Zenon DEF Control
  <2> QED
    BY Zenon, <2>1 DEF Decision, Abandons, Broker, Failing
<1>2. Contributors' = Contributors /\ \A u : Contributes(u)' <=> Contributes(u)
  BY Zenon, <1>1 DEF Contributors, Contributes
<1>3. Fresh'
  <2>1. \A u \in Items : Seen(u)' => Seen(u)
    BY Zenon, <1>1, <1>2 DEF Seen
  <2> QED
    BY Zenon, <1>1, <2>1 DEF Inv, Fresh
<1>4. BrokerUnits' /\ Losses'
  <2>1. \A u : (Good(u)' <=> Good(u)) /\ (Excused(u)' <=> Excused(u))
    BY Zenon, <1>1 DEF Good, Excused, Spared
  <2>2. BrokerUnits'
    BY Zenon, <1>1, <1>2, <2>1 DEF Inv, BrokerUnits
  <2>3. Losses'
    BY Zenon, <1>1 DEF Inv, Losses
  <2> QED
    BY Zenon, <2>2, <2>3
<1>5. WholeFiles' /\ ChunkedFiles' /\ Files'
  <2>1. cfg'.src = "broker"
    BY Zenon, <1>1 DEF Broker
  <2>2. WholeFiles' /\ ChunkedFiles'
    BY Zenon, <1>1, <2>1 DEF WholeFiles, ChunkedFiles
  <2>3. Files'
    BY Zenon, <1>1 DEF Inv, Files
  <2> QED
    BY Zenon, <2>2, <2>3
<1>6. Coverage' /\ Outstanding'
  <2>1. /\ \A d : HasUnit(d)' <=> HasUnit(d)
        /\ \A p, o : Covered(p, o)' <=> Covered(p, o)
    BY Zenon, <1>1 DEF HasUnit, Covered, Accounted, Spared
  <2>2. Coverage'
    BY Zenon, <1>1, <2>1 DEF Inv, Coverage
  <2>3. Outstanding'
    BY Zenon, <1>1, <2>1 DEF Inv, Outstanding
  <2> QED
    BY Zenon, <2>2, <2>3
<1>7. Located'
  BY Zenon, <1>1 DEF Located
<1>8. AcksSettled' /\ CheckpointAccounted'
  BY Zenon, <1>1 DEF Inv, AcksSettled, CheckpointAccounted, Accounted, Spared
<1>9. SuccessAccounted'
  BY Zenon, <1>1 DEF Inv, SuccessAccounted
<1> QED
  BY Zenon, <1>3, <1>4, <1>5, <1>6, <1>7, <1>8, <1>9 DEF Inv

\* A decision keeps the invariant.
LEMMA DecisionInv ==
    ASSUME Inv, Decision, Broker, ~Held, NEW ok, NEW clean, DecisionStep(ok, clean), Shape', Control'
    PROVE  Inv'
<1>1. /\ cfg' = cfg /\ result' = result /\ result # "success"
      /\ ~Nearing("file")' /\ ~Nearing("lastFile")' /\ reader'.unit = reader.unit
      /\ cfg'.src = "broker" /\ Broker'
  BY Zenon DEF Decision, Broker, Inv, Control
<1>2. Fresh' /\ BrokerUnits' /\ Losses' /\ Coverage' /\ Located'
  BY Zenon, DecisionUnits
<1>3. CheckpointAccounted' /\ AcksSettled'
  BY Zenon, <1>1, DecisionCheckpoint
<1>4. Outstanding'
  BY Zenon, DecisionOutstanding
<1>5. WholeFiles' /\ ChunkedFiles'
  BY Zenon, <1>1 DEF WholeFiles, ChunkedFiles
<1>6. Files'
  BY Zenon, <1>1 DEF Inv, Files
<1>7. SuccessAccounted'
  BY Zenon, <1>1 DEF SuccessAccounted
<1> QED
  BY Zenon, <1>2, <1>3, <1>4, <1>5, <1>6, <1>7 DEF Inv

\* The decision about the completed broker units keeps the invariant.
LEMMA DecideBrokersInv == ASSUME Inv, DecideBrokers PROVE Inv'
<1>1. /\ Decision /\ Shape' /\ Control'
      /\ \/ /\ ~Broker \/ buf.completed = {} \/ Held
            /\ UNCHANGED <<buf, units, acct, sink, acked, ckpt>>
         \/ /\ Broker /\ ~Held
            /\ \E ok, clean \in BOOLEAN : DecisionStep(ok, clean)
         \/ Abandons
  BY Zenon, DecideBrokersFacts DEF Inv
<1>2. CASE /\ ~Broker \/ buf.completed = {} \/ Held
           /\ UNCHANGED <<buf, units, acct, sink, acked, ckpt>>
  <2>1. Steady
    BY Zenon, <1>1, <1>2 DEF Decision, Steady
  <2>2. ASSUME reader'.at = "close", Broker, ~lost PROVE DOMAIN units = {}
    <3>1. DOMAIN units \subseteq buf.completed
      BY Zenon, <1>1, <2>2, TailCompleted DEF Decision
    <3> QED
      BY Zenon, <1>2, <2>2, <3>1 DEF Held
  <2>3. SuccessAccounted'
    BY Zenon, <1>1, <2>1, SameSuccess DEF Decision
  <2>4. ~Nearing("file")' /\ ~Nearing("lastFile")' /\ ThreadShape'
    BY Zenon, <1>1 DEF Decision, Shape
  <2>5. /\ cfg.src = "sftp" /\ Nearing("file")' => \A x \in src.batch : x[1] # reader.unit[1]
        /\ cfg.src = "sftp" /\ Nearing("lastFile")' => src.batch = {}
        /\ \A f \in {"file", "lastFile"} : Nearing(f)' => reader.unit # <<>>
    BY Zenon, <2>4
  <2> QED
    BY Zenon, <1>1, <2>1, <2>2, <2>3, <2>4, <2>5, SteadyMoves
<1>3. CASE Broker /\ ~Held /\ \E ok, clean \in BOOLEAN : DecisionStep(ok, clean)
  BY Zenon, <1>1, <1>3, DecisionInv
<1>4. CASE Abandons
  BY Zenon, <1>1, <1>4, AbandonsInv
<1> QED
  BY Zenon, <1>1, <1>2, <1>3, <1>4

-----------------------------------------------------------------------------
(* A file is settled.                                                      *)

\* At a file boundary every chunk of an open chunked file left the pipeline.
LEMMA ChunkedFileSettles ==
    ASSUME Inv, Finalization, cfg.src = "sftp", ~acct.loss, ~lost,
           reader.unit \in DOMAIN units, reader.unit # <<>>
    PROVE  FileData(reader.unit) \subseteq Handled
<1>1. /\ AllIdle /\ lock = Free /\ ~Buffered /\ reader.then # "failed"
      /\ reader.at \in {"file", "lastFile"} /\ reader.unit \in FileUnits
  BY Zenon DEF Inv, Control, Towards, Finalization
<1>2. ~Failing
  BY Zenon, <1>1 DEF Failing, AllIdle
<1>3. \A i : ~Working(i)
  <2>1. queue = <<>> /\ \A w \in Workers : worker[w] = Idle
    BY Zenon, <1>1 DEF AllIdle
  <2>2. \A i : ~Among(queue, i)
    <3>1. DOMAIN queue = {}
      BY <2>1
    <3> QED
      BY Zenon, <3>1 DEF Among
  <2> QED
    BY Zenon, <1>1, <2>1, <2>2, IdleThread DEF Working
<1>4. Records = {}
  <2>1. Free.records = {}
    BY DEF Free
  <2> QED
    BY Zenon, <1>1, <2>1 DEF Records, Buffered
<1>5. \A x \in src.batch : x[1] # reader.unit[1]
  BY Zenon, <1>1 DEF Inv, ChunkedFiles, Nearing
<1>6. ASSUME NEW i \in Items, i[1] = reader.unit[1], i[3] = 0 PROVE Datum(i) \in Handled
  <2>1. Somewhere(i)
    BY Zenon, <1>2, <1>6 DEF Inv, ChunkedFiles
  <2> QED
    BY Zenon, <1>3, <1>4, <1>5, <1>6, <2>1 DEF Somewhere
<1>7. PICK k \in Keys : k = reader.unit[1]
  BY Zenon, <1>1, FileDataFacts
<1>8. ASSUME NEW j \in 1..Length PROVE <<k, j>> \in Handled
  <2>1. PICK i : i = <<k, j, 0>>
    BY Zenon
  <2>2. i \in Items /\ i[1] = k /\ i[3] = 0 /\ Datum(i) = <<k, j>>
    BY <2>1 DEF Items, Datum
  <2> QED
    BY Zenon, <1>6, <1>7, <2>2
<1> QED
  BY Zenon, <1>7, <1>8 DEF FileData, Chunks

\* The record of a decided file read at once is handled or dropped.
LEMMA WholeFileSettles ==
    ASSUME Inv, ~Broker, cfg.src # "sftp", reader.unit \in DOMAIN units,
           Disposition(units[reader.unit]) # "undecided"
    PROVE  FileData(reader.unit) \subseteq Handled \/ Disposition(units[reader.unit]) = "dropped"
<1>1. PICK u \in DOMAIN units : u = reader.unit
  BY Zenon
<1>2. PICK n \in Counts : n = units[u]
  BY Zenon DEF Inv, Shape, DataShape
<1>3. \/ <<u[1], 1>> \in Handled
      \/ /\ ~(n.dlqOk > 0)
         /\ \/ n.failed > 0 \/ n.dlqFail > 0
            \/ ~(n.in > 0) /\ ~(n.delivered > 0)
  BY Zenon, <1>2 DEF Inv, WholeFiles
<1>4. /\ Disposition(n) = "delivered" => n.delivered > 0 /\ ~(n.failed > 0)
      /\ Disposition(n) = "dlq" => n.dlqOk > 0
      /\ Disposition(n) = "dropped" => n.failed > 0 /\ cfg.onError = "continue"
      /\ Disposition(n) = "filtered" =>
            n.in > 0 /\ ~(n.delivered > 0) /\ ~(n.dlqOk > 0) /\ ~(n.failed > 0)
      /\ Disposition(n) # "undecided" => ~(n.dlqFail > 0)
      /\ Disposition(n) \in {"delivered", "dlq", "dropped", "filtered", "undecided"}
  BY Zenon, DispositionFacts
<1>5. <<u[1], 1>> \in Handled \/ Disposition(n) = "dropped"
  BY Zenon, <1>1, <1>2, <1>3, <1>4
<1>6. FileData(u) \subseteq {<<u[1], 1>>}
  BY DEF FileData, Chunks
<1> QED
  BY Zenon, <1>1, <1>2, <1>5, <1>6

\* Finalizing a file keeps the invariant.
LEMMA FileStepInv ==
    ASSUME Inv, Finalization, NEW ok \in BOOLEAN, FileStep(ok), Shape', Control' PROVE Inv'
<1>1. /\ UNCHANGED <<cfg, src, lock, buf, result, lost>>
      /\ \A i \in Items : Working(i)' <=> Working(i)
      /\ reader.at \in {"file", "lastFile"}
      /\ ~Nearing("file")' /\ ~Nearing("lastFile")' /\ reader'.unit = <<>>
  BY Zenon DEF Finalization, FileStep
<1>2. reader.unit # <<>> /\ reader.unit \in DOMAIN units /\ ~Broker /\ ~Broker'
  BY Zenon, <1>1 DEF Inv, Files, Nearing, Broker
<1>3. PICK u \in DOMAIN units : u = reader.unit
  BY Zenon, <1>2
<1>4. PICK d : d = Disposition(units[u])
  OBVIOUS
<1>5. /\ DOMAIN units' = DOMAIN units \ {u} /\ \A v \in DOMAIN units' : units'[v] = units[v]
      /\ acct'.loss <=> acct.loss
      /\ sink'.written = sink.written /\ Spared' = Spared /\ sink'.dlq = sink.dlq
      /\ sink'.durable = IF ok THEN sink.durable \union sink.written ELSE sink.durable
      /\ sink'.dropped = sink.dropped \/ (d = "dropped" /\ sink'.dropped = sink.dropped \union FileData(u))
      /\ \/ acked' = acked
         \/ /\ ok /\ acked' = acked \union FileData(u)
            /\ \/ cfg.src = "sftp"
               \/ d # "undecided" /\ (d = "dropped" => FileData(u) \subseteq sink'.dropped)
  BY Zenon, <1>3, <1>4 DEF FileStep
<1>6. Records' = Records /\ Handled' = Handled
  BY Zenon, <1>1, <1>5 DEF Records, Handled
<1>7. Fresh' /\ BrokerUnits' /\ Coverage' /\ Located' /\ Outstanding' /\ CheckpointAccounted' /\ SuccessAccounted'
  BY Zenon, <1>2 DEF Fresh, BrokerUnits, Coverage, Located, Outstanding, CheckpointAccounted, SuccessAccounted
<1>8. Losses'
  <2>1. \A v \in DOMAIN units' : units'[v].failed > 0 => acct.loss
    BY Zenon, <1>5 DEF Inv, Losses
  <2>2. ASSUME d = "dropped" PROVE acct.loss /\ cfg.onError = "continue"
    <3>1. units[u] \in Counts
      BY Zenon DEF Inv, Shape, DataShape
    <3>2. units[u].failed > 0 /\ cfg.onError = "continue"
      BY Zenon, <1>4, <2>2, <3>1, DispositionFacts
    <3> QED
      BY Zenon, <3>2 DEF Inv, Losses
  <2>3. sink'.dropped # {} => acct.loss /\ cfg.onError = "continue"
    BY Zenon, <1>5, <2>2 DEF Inv, Losses
  <2> QED
    BY Zenon, <1>1, <1>5, <2>1, <2>3 DEF Losses
<1>9. WholeFiles'
  <2> SUFFICES ASSUME cfg.src # "sftp" PROVE WholeFiles'
    BY Zenon, <1>1 DEF WholeFiles
  <2>1. \A j \in Items : j \in src'.batch \/ j \in Records' \/ Working(j)' => j[2] = 1
    BY Zenon, <1>1, <1>2, <1>6 DEF Inv, WholeFiles
  <2>2. \A v \in DOMAIN units' :
            \/ <<v[1], 1>> \in Handled'
            \/ /\ ~(units'[v].dlqOk > 0)
               /\ \/ units'[v].failed > 0 \/ units'[v].dlqFail > 0
                  \/ ~(units'[v].in > 0) /\ ~(units'[v].delivered > 0)
    BY Zenon, <1>2, <1>5, <1>6 DEF Inv, WholeFiles
  <2> QED
    BY Zenon, <2>1, <2>2 DEF WholeFiles
<1>10. Files'
  BY Zenon, <1>1 DEF Files
<1>11. ChunkedFiles'
  <2> SUFFICES ASSUME cfg.src = "sftp" PROVE ChunkedFiles'
    BY Zenon, <1>1 DEF ChunkedFiles
  <2>1. \A x \in src.batch : x[3] = 0 /\ x[1] # reader.unit[1]
    BY Zenon, <1>1 DEF Inv, ChunkedFiles, Nearing
  <2>2. \A x \in src.batch : \A i \in Items : i[1] = x[1] /\ i[3] = 0 => i \in src.batch
    BY Zenon, <2>1 DEF Inv, ChunkedFiles
  <2> QED
    BY Zenon, <1>1, <2>1, <2>2 DEF ChunkedFiles
<1>12. AcksSettled'
  <2> SUFFICES ASSUME cfg.src = "sftp" => ~acct.loss /\ ~lost PROVE acked' \subseteq Accounted'
    BY Zenon, <1>1, <1>5 DEF AcksSettled
  <2>1. Accounted \subseteq Accounted' /\ acked \subseteq Accounted /\ (ok => Handled \subseteq Accounted')
    BY Zenon, <1>5 DEF Accounted, Handled, Inv, AcksSettled
  <2>2. CASE ok /\ acked' = acked \union FileData(u) /\ cfg.src = "sftp"
    <3>1. FileData(u) \subseteq Handled
      BY Zenon, <1>2, <1>3, <2>2, ChunkedFileSettles
    <3> QED
      BY Zenon, <2>1, <2>2, <3>1
  <2>3. CASE /\ ok /\ acked' = acked \union FileData(u) /\ cfg.src # "sftp"
             /\ d # "undecided" /\ (d = "dropped" => FileData(u) \subseteq sink'.dropped)
    <3>1. FileData(u) \subseteq Handled \/ d = "dropped"
      BY Zenon, <1>2, <1>3, <1>4, <2>3, WholeFileSettles
    <3>2. sink'.dropped \subseteq Accounted'
      BY Zenon DEF Accounted
    <3> QED
      BY Zenon, <2>1, <2>3, <3>1, <3>2
  <2> QED
    BY Zenon, <1>5, <2>1, <2>2, <2>3
<1> QED
  BY Zenon, <1>7, <1>8, <1>9, <1>10, <1>11, <1>12 DEF Inv

\* The finalization of a file keeps the invariant.
LEMMA SettleFileInv == ASSUME Inv, SettleFile PROVE Inv'
<1>1. /\ Finalization /\ Shape' /\ Control'
      /\ \/ (\E ok \in BOOLEAN : FileStep(ok))
         \/ UNCHANGED <<units, acct, sink, acked, ckpt>> /\ reader'.then = "failed" /\ reader'.unit = reader.unit
  BY Zenon, SettleFileFacts DEF Inv
<1>2. CASE \E ok \in BOOLEAN : FileStep(ok)
  BY Zenon, <1>1, <1>2, FileStepInv
<1>3. CASE UNCHANGED <<units, acct, sink, acked, ckpt>> /\ reader'.then = "failed" /\ reader'.unit = reader.unit
  <2>1. Steady
    BY Zenon, <1>1, <1>3 DEF Finalization, Steady
  <2>2. SuccessAccounted'
    BY Zenon, <1>1, <2>1, SameSuccess DEF Finalization
  <2>3. ~Nearing("file")' /\ ~Nearing("lastFile")' /\ ThreadShape' /\ reader'.at # "close"
    BY Zenon, <1>1 DEF Finalization, Shape
  <2>4. /\ cfg.src = "sftp" /\ Nearing("file")' => \A x \in src.batch : x[1] # reader.unit[1]
        /\ cfg.src = "sftp" /\ Nearing("lastFile")' => src.batch = {}
        /\ \A f \in {"file", "lastFile"} : Nearing(f)' => reader.unit # <<>>
    BY Zenon, <2>3
  <2> QED
    BY Zenon, <1>1, <2>1, <2>2, <2>3, <2>4, SteadyMoves
<1> QED
  BY Zenon, <1>1, <1>2, <1>3

-----------------------------------------------------------------------------
(* The invariant.                                                          *)

\* The files listed at the start: whole, in epoch 0.
LEMMA ListingFacts ==
    ASSUME cfg \in Configs
    PROVE  /\ Listing \subseteq Items
           /\ \A x \in Listing : x[3] = 0
           /\ cfg.src # "sftp" => \A x \in Listing : x[2] = 1
           /\ cfg.src = "sftp" =>
                 \A x \in Listing : \A i \in Items : i[1] = x[1] /\ i[3] = 0 => i \in Listing
<1>1. cfg.keys \subseteq Keys /\ Length \in Nat \ {0}
  BY Zenon, StreamConstants
<1>2. ASSUME NEW x \in Listing
      PROVE  x \in Items /\ x[1] \in cfg.keys /\ x[3] = 0 /\ (cfg.src # "sftp" => x[2] = 1)
  <2>1. PICK f \in cfg.keys, j \in 1..Chunks : x = <<f, j, 0>>
    BY <1>2 DEF Listing
  <2>2. j \in 1..Length /\ f \in Keys /\ (cfg.src # "sftp" => j = 1)
    BY <1>1 DEF Chunks
  <2> QED
    BY <2>1, <2>2 DEF Items
<1>3. ASSUME cfg.src = "sftp", NEW f \in cfg.keys, NEW i \in Items, i[1] = f, i[3] = 0 PROVE i \in Listing
  <2>1. i = <<f, i[2], 0>> /\ i[2] \in 1..Chunks
    BY Zenon, <1>3, ItemFacts DEF Chunks
  <2> QED
    BY <2>1 DEF Listing
<1>4. ASSUME cfg.src = "sftp", NEW x \in Listing, NEW i \in Items, i[1] = x[1], i[3] = 0 PROVE i \in Listing
  <2>1. x[1] \in cfg.keys
    BY Zenon, <1>2
  <2> QED
    BY Zenon, <1>3, <1>4, <2>1
<1> QED
  BY Zenon, <1>2, <1>4

\* The initial state.
LEMMA InitFacts ==
    ASSUME Init
    PROVE  /\ Shape /\ cfg \in Configs
           /\ src.position = [p \in Keys |-> 0] /\ src.batch = (IF Broker THEN {} ELSE Listing)
           /\ reader.at = "next" /\ reader.then = "next" /\ reader.unit = <<>>
           /\ DOMAIN queue = {} /\ DOMAIN units = {}
           /\ AllIdle
           /\ lock = Free /\ lock.by = "none" /\ lock.records = {} /\ lock.contributors = {}
           /\ buf.records = {} /\ buf.contributors = {} /\ buf.completed = {}
           /\ sink.dropped = {}
           /\ acked = {} /\ ckpt = [p \in Keys |-> 0]
           /\ result = "running"
<1>1. cfg \in Configs /\ queue = <<>> /\ units = <<>> /\ acked = {} /\ ckpt = [p \in Keys |-> 0]
  BY Zenon DEF Init
<1>2. DOMAIN queue = {} /\ DOMAIN units = {} /\ queue \in Seq(Items) /\ Len(queue) = 0
  BY <1>1
<1>3. PICK b : b = (IF Broker THEN {} ELSE Listing)
  BY Zenon
<1>4. b \subseteq Items
  BY Zenon, <1>1, <1>3, ListingFacts
<1>5. src = [position |-> [p \in Keys |-> 0], epoch |-> 1, rewinds |-> 0, batch |-> b]
  BY Zenon, <1>3 DEF Init
<1>6. src \in Sources /\ src.position = [p \in Keys |-> 0] /\ src.batch = b
  <2>1. [p \in Keys |-> 0] \in [Keys -> 0..Length]
    BY StreamConstants
  <2>2. PICK z : z = [p \in Keys |-> 0] /\ z \in [Keys -> 0..Length]
    BY Zenon, <2>1
  <2> QED
    BY <1>4, <1>5, <2>2 DEF Sources
<1>7. reader = [at |-> "next", item |-> <<>>, end |-> FALSE, then |-> "next", stopped |-> FALSE, unit |-> <<>>]
  BY Zenon DEF Init
<1>8. reader.at = "next" /\ reader.then = "next" /\ reader.unit = <<>>
  BY Zenon, <1>7
<1>9. reader \in Readers
  BY Zenon, <1>7 DEF Readers, Places
<1>10. worker = [w \in Workers |-> Idle] /\ \A w \in Workers : worker[w] = Idle
  BY Zenon DEF Init
<1>11. worker \in [Workers -> Threads] /\ \A w \in Workers : worker[w].at # "chunk"
  BY Zenon, <1>10, IdleThread
<1>12. lock = Free /\ Free \in Locks /\ Free.by = "none" /\ Free.records = {} /\ Free.contributors = {}
  <2>1. Free \in Locks /\ Free.by = "none" /\ Free.records = {} /\ Free.contributors = {}
    BY DEF Free, Locks
  <2> QED
    BY Zenon, <2>1 DEF Init
<1>13. buf \in Buffers /\ buf.records = {} /\ buf.contributors = {} /\ buf.completed = {}
  <2>1. EmptyBuffer \in Buffers /\ EmptyBuffer.records = {} /\ EmptyBuffer.contributors = {} /\ EmptyBuffer.completed = {}
    BY DEF EmptyBuffer, Buffers
  <2> QED
    BY Zenon, <2>1 DEF Init
<1>14. acct \in Accounts
  <2>1. Length + 1 \in Nat
    BY StreamConstants
  <2>2. acct = [loss |-> FALSE, pending |-> FALSE, gaps |-> [p \in Keys |-> Length + 1]]
    BY Zenon DEF Init
  <2>3. PICK g \in [Keys -> Nat] : g = [p \in Keys |-> Length + 1]
    BY Zenon, <2>1
  <2> QED
    BY Zenon, <2>2, <2>3 DEF Accounts
<1>15. sink \in Sinks /\ sink.dropped = {} /\ sink.durable = {}
  <2>1. sink = [written |-> {}, durable |-> {}, filtered |-> {}, swallowed |-> {}, dlq |-> {}, dropped |-> {}, open |-> FALSE]
    BY Zenon DEF Init
  <2>2. {} \in SUBSET Data
    OBVIOUS
  <2>3. sink \in Sinks
    BY Zenon, <2>1, <2>2 DEF Sinks
  <2> QED
    BY Zenon, <2>1, <2>3
<1>16. ckpt \in [Keys -> 0..Length]
  BY <1>1, StreamConstants
<1>17. /\ ~errors /\ errors \in BOOLEAN /\ lost \in BOOLEAN /\ faults \in Nat /\ result = "running"
  <2>1. errors = FALSE /\ lost = FALSE /\ faults = 0 /\ result = "running"
    BY Zenon DEF Init
  <2>2. 0 \in Nat
    OBVIOUS
  <2> QED
    BY Zenon, <2>1, <2>2
<1>18. Len(queue) <= 2 * Cardinality(Workers)
  <2>1. Cardinality(Workers) \in Nat
    BY Zenon, StreamConstants, FS_CardinalityType
  <2> QED
    BY <1>2, <2>1
<1>19. ThreadShape
  BY Zenon, <1>2, <1>8, <1>9, <1>11, <1>17, <1>18 DEF ThreadShape
<1>20. BufferShape
  <2>1. IsFiniteSet({})
    BY Zenon, FS_EmptySet
  <2> QED
    BY Zenon, <1>12, <1>13, <2>1 DEF BufferShape
<1>21. DataShape
  <2>1. units \in [DOMAIN units -> Counts]
    BY <1>1
  <2> QED
    BY Zenon, <1>1, <1>2, <1>6, <1>14, <1>15, <1>16, <2>1 DEF DataShape
<1>22. AllIdle
  BY Zenon, <1>1, <1>10, <1>17 DEF AllIdle
<1> QED
  BY Zenon, <1>1, <1>2, <1>3, <1>6, <1>8, <1>12, <1>13, <1>15, <1>17, <1>19, <1>20, <1>21, <1>22 DEF Shape

\* The invariant holds initially.
LEMMA InitInv == ASSUME Init PROVE Inv
<1>1. /\ Shape /\ cfg \in Configs
      /\ src.position = [p \in Keys |-> 0] /\ src.batch = (IF Broker THEN {} ELSE Listing)
      /\ reader.at = "next" /\ reader.then = "next" /\ reader.unit = <<>>
      /\ DOMAIN queue = {} /\ DOMAIN units = {}
      /\ AllIdle
      /\ lock = Free /\ lock.by = "none" /\ lock.records = {} /\ lock.contributors = {}
      /\ buf.records = {} /\ buf.contributors = {} /\ buf.completed = {}
      /\ sink.dropped = {}
      /\ acked = {} /\ ckpt = [p \in Keys |-> 0]
      /\ result = "running"
  BY Zenon, InitFacts
<1>2. Control
  <2>1. \A w \in Workers : worker[w].at # "flushing" /\ lock.by # w
    <3>1. \A w \in Workers : w # "none"
      BY Zenon, StreamConstants
    <3> QED
      BY Zenon, <1>1, <3>1, IdleThread DEF AllIdle
  <2>2. ~Towards({"decide", "file", "lastFile"}) /\ ~Towards({"tail", "close"})
    BY Zenon, <1>1 DEF Towards
  <2> QED
    BY Zenon, <1>1, <2>1, <2>2 DEF Control
<1>3. /\ \A i : ~Working(i)
      /\ \A u : ~Contributes(u)
      /\ Contributors = {} /\ Records = {}
      /\ ~Nearing("file") /\ ~Nearing("lastFile")
  <2>1. \A i : ~Working(i)
    BY Zenon, <1>1, IdleThread DEF Working, Among, AllIdle
  <2>2. Contributors = {} /\ Records = {}
    BY Zenon, <1>1 DEF Contributors, Records
  <2> QED
    BY Zenon, <1>1, <2>1, <2>2 DEF Contributes, Nearing
<1>4. \A u : ~Seen(u)
  BY Zenon, <1>1, <1>3 DEF Seen
<1>5. Fresh /\ BrokerUnits /\ Losses /\ Located /\ Files /\ AcksSettled
  <2>1. Fresh
    BY Zenon, <1>1, <1>4 DEF Fresh
  <2>2. BrokerUnits
    BY Zenon, <1>1, <1>3 DEF BrokerUnits
  <2>3. Losses /\ Located /\ AcksSettled
    BY Zenon, <1>1 DEF Losses, Located, AcksSettled
  <2>4. Files
    BY Zenon, <1>1, <1>3 DEF Files
  <2> QED
    BY Zenon, <2>1, <2>2, <2>3, <2>4
<1>6. \A o \in 1..Length : ~(o <= 0)
  OBVIOUS
<1>7. Coverage /\ Outstanding /\ CheckpointAccounted
  <2>1. \A p \in Keys : src.position[p] = 0 /\ ckpt[p] = 0
    BY Zenon, <1>1
  <2>2. \A d \in Data : d[1] \in Keys /\ d[2] \in 1..Length
    BY DEF Data
  <2>3. \A d \in Data : ~(d[2] <= src.position[d[1]])
    BY Zenon, <1>6, <2>1, <2>2
  <2>4. \A p \in Keys : \A o \in 1..Length : ~(o <= src.position[p]) /\ ~(o <= ckpt[p])
    BY Zenon, <1>6, <2>1
  <2> QED
    BY Zenon, <1>1, <2>3, <2>4 DEF Coverage, Outstanding, CheckpointAccounted
<1>8. SuccessAccounted
  BY Zenon, <1>1 DEF SuccessAccounted
<1>9. WholeFiles /\ ChunkedFiles
  <2>1. /\ \A x \in Listing : x[3] = 0
        /\ cfg.src # "sftp" => \A x \in Listing : x[2] = 1
        /\ cfg.src = "sftp" =>
              \A x \in Listing : \A i \in Items : i[1] = x[1] /\ i[3] = 0 => i \in Listing
    BY Zenon, <1>1, ListingFacts
  <2>2. WholeFiles
    BY Zenon, <1>1, <1>3, <2>1 DEF WholeFiles
  <2>3. cfg.src = "sftp" => src.batch = Listing
    BY Zenon, <1>1 DEF Broker
  <2>4. ChunkedFiles
    BY Zenon, <1>1, <1>3, <2>1, <2>3 DEF ChunkedFiles
  <2> QED
    BY Zenon, <2>2, <2>4
<1> QED
  BY Zenon, <1>1, <1>2, <1>5, <1>7, <1>8, <1>9 DEF Inv

\* A stuttering step keeps the invariant.
LEMMA StutterInv == ASSUME Inv, UNCHANGED vars PROVE Inv'
<1>1. UNCHANGED <<cfg, src, reader, queue, worker, lock, buf, units, acct, sink, acked, ckpt, errors,
                  stop, result, lost, faults>>
  BY Zenon DEF vars
<1>2. \A i \in Items : Working(i)' <=> Working(i)
  BY Zenon, <1>1, SameWork
<1>3. Steady
  BY Zenon, <1>1, <1>2 DEF Steady, Failing
<1>4. Lingers
  BY Zenon, <1>1, StandsStill
<1>5. ThreadShape' /\ Control'
  <2>1. Shape /\ Control
    BY Zenon DEF Inv
  <2>2. Buffered' <=> Buffered
    BY Zenon, <1>1 DEF Buffered
  <2>3. faults' \in Nat
    BY Zenon, <1>1, <2>1 DEF Shape, ThreadShape
  <2> QED
    BY Zenon, <1>1, <2>1, <2>2, <2>3, SameControl
<1> QED
  BY Zenon, <1>1, <1>3, <1>4, <1>5, SteadyKeeps

\* Every step keeps the invariant.
LEMMA NextInv == ASSUME Inv, [Next]_vars PROVE Inv'
<1>1. CASE ReaderStep
  BY Zenon, <1>1, PollInv, SourceEndsInv, LeaveLoopInv, NextFileInv, TakeItemInv, ReaderChunkInv, ReaderFlushInv,
     JoinInv, StopWorkersInv, DecideBrokersInv, SettleFileInv, EndRunInv DEF ReaderStep
<1>2. CASE \E w \in Workers : WorkerStep(w)
  BY Zenon, <1>2, WorkerTakesInv, WorkerChunkInv, WorkerFlushInv DEF WorkerStep
<1>3. CASE Rewind
  BY Zenon, <1>3, RewindInv
<1>4. CASE RequestStop
  BY Zenon, <1>4, RequestStopInv
<1>5. CASE FlusherWakes
  BY Zenon, <1>5, FlusherWakesInv
<1>6. CASE FlushEnds
  BY Zenon, <1>6, FlushEndsInv
<1>7. CASE UNCHANGED vars
  BY Zenon, <1>7, StutterInv
<1> QED
  BY Zenon, <1>1, <1>2, <1>3, <1>4, <1>5, <1>6, <1>7 DEF Next

\* The inductive invariant holds in every run.
LEMMA Invariance == Spec => []Inv
<1>1. Init => Inv
  BY Zenon, InitInv
<1>2. Inv /\ [Next]_vars => Inv'
  BY Zenon, NextInv
<1> QED
  BY <1>1, <1>2, PTL DEF Spec

\* The fields the type invariant speaks of have their types.
LEMMA InvType == ASSUME Inv PROVE TypeOK
<1>1. /\ cfg \in Configs /\ reader.at \in Places /\ Len(queue) <= 2 * Cardinality(Workers)
      /\ lock \in Locks /\ buf \in Buffers
      /\ \A w \in Workers : worker[w].at = "flushing" <=> lock.by = w
      /\ sink \in Sinks /\ sink.durable \subseteq sink.written
      /\ acked \subseteq Data /\ ckpt \in [Keys -> 0..Length]
      /\ result \in {"running", "failed", "partial", "success"}
      /\ \A u \in DOMAIN units : units[u] \in Counts
  BY Zenon DEF Inv, Shape, ThreadShape, BufferShape, DataShape, Control, Readers
<1>2. buf.records \subseteq Items /\ lock.records \subseteq Items
      /\ lock.by \in Workers \union {"none", "reader", "flusher"} /\ sink.written \subseteq Data
  BY Zenon, <1>1 DEF Buffers, Locks, Sinks
<1>3. \A i \in buf.records \union lock.records : Datum(i) \in Data
  BY Zenon, <1>2, ItemFacts
<1>4. \A u \in DOMAIN units : units[u].in \in Nat /\ units[u].delivered \in Nat
  BY Zenon, <1>1 DEF Counts
<1>5. /\ reader.at \in {"next", "chunk", "flush", "flushing", "join", "stopWorkers", "decide", "tail",
                      "file", "lastFile", "failed", "close", "ended"}
      /\ lock.by \in {"none", "reader", "flusher"} \union Workers
  BY Zenon, <1>1, <1>2 DEF Places
<1> QED
  BY Zenon, <1>1, <1>2, <1>3, <1>4, <1>5 DEF TypeOK

\* What the invariant calls accounted is settled, or of a swallowed flush.
LEMMA AccountedFacts == Accounted = Settled \union sink.swallowed
BY Zenon DEF Accounted, Spared, Settled

-----------------------------------------------------------------------------
(* The theorems.                                                           *)

(***************************************************************************)
(* Whatever the threads, the flushes, the failures and the rebalances do,  *)
(* a record the source gave up is committed in the sink, in the DLQ,       *)
(* routed away or dropped by the policy, or the TramError of its flush was *)
(* swallowed (_flush_stream_buffer, _finalize_stream_broker_units,         *)
(* _finalize_batch_source_unit).                                           *)
(***************************************************************************)
THEOREM AcknowledgedIsSettled == Spec => []AckedIsSettled
<1>1. Inv => AckedIsSettled
  BY Zenon, InvType, AccountedFacts DEF Inv, AcksSettled, AckedIsSettled
<1> QED
  BY <1>1, Invariance, PTL

(***************************************************************************)
(* A partition's delivery checkpoint never passes a record that is neither *)
(* settled nor of a swallowed flush (broker_gaps and the hold in           *)
(* _finalize_stream_broker_units).                                         *)
(***************************************************************************)
THEOREM CheckpointsAreSettled == Spec => []CheckpointIsSettled
<1>1. Inv => CheckpointIsSettled
  BY Zenon, AccountedFacts DEF Inv, CheckpointAccounted, CheckpointIsSettled
<1> QED
  BY <1>1, Invariance, PTL

(***************************************************************************)
(* A stream run that reports success called ack() for every broker record  *)
(* it took, each of them settled or of a swallowed flush, and dropped      *)
(* none, unless a flush failed in the timer thread or a worker outlived    *)
(* its join (stream_run, _batch_outcome).                                  *)
(***************************************************************************)
THEOREM SuccessesAreComplete == Spec => []SuccessIsComplete
<1>1. ASSUME Inv, result = "success", Broker, ~lost
      PROVE  /\ {d \in Data : d[2] <= src.position[d[1]]} \ DataOf(src.batch)
                   \subseteq acked \intersect (Settled \union sink.swallowed)
             /\ sink.dropped = {}
  <2>1. cfg.src # "sftp"
    BY Zenon, <1>1 DEF Broker
  <2>2. acked \subseteq Settled \union sink.swallowed
    BY Zenon, <1>1, <2>1, AccountedFacts DEF Inv, AcksSettled
  <2> QED
    BY Zenon, <1>1, <2>2 DEF Inv, SuccessAccounted
<1>2. Inv => SuccessIsComplete
  BY Zenon, <1>1 DEF SuccessIsComplete
<1> QED
  BY <1>2, Invariance, PTL

=============================================================================
