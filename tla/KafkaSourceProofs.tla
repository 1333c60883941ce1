------------------------- MODULE KafkaSourceProofs -------------------------
(* Proofs about KafkaSource for every set of partitions, every log and any *)
(* number of rebalances, lost sessions, failed polls and failed commits.   *)
EXTENDS KafkaSource, WellFoundedInduction, TLAPS

-----------------------------------------------------------------------------
(* The inductive invariant, over a log L, committed offsets C, records D    *)
(* that are decided or were left out by a reset, and yielded records M.    *)

Past == decided \cup skipped

\* Every payload of p up to n is decided.
Safe(L, D, p, n) == \A o \in Offsets : o <= n /\ L[p][o] = "value" => <<p, o>> \in D

\* What the source remembers as decided is decided.
Decides(L, D, s) ==
    \A p \in Partitions :
        /\ Safe(L, D, p, s.pending[p])
        /\ \A o \in s.ooo[p] : <<p, o>> \in D
        /\ \A o \in s.tombstones[p] : L[p][o] # "value"

\* Up to the position, a payload is decided or observed; what is observed lies
\* between the frontier and the position.
Covers(L, D, s, position) ==
    \A p \in Partitions :
        /\ s.completed[p] <= position[p]
        /\ \A o \in s.observed[p] : s.completed[p] < o /\ o <= position[p]
        /\ \A o \in Offsets : o <= position[p] /\ L[p][o] = "value" =>
              <<p, o>> \in D \/ o \in s.observed[p]

\* A partition that is not assigned holds nothing.
HoldsAssigned(s) ==
    \A p \in Partitions :
        /\ p \in s.assigned => s.pepoch[p] \in 1..s.epoch
        /\ p \notin s.assigned => /\ s.pepoch[p] = 0 /\ s.observed[p] = {}
                                  /\ s.pending[p] = 0 /\ s.completed[p] = 0
                                  /\ s.readMin[p] = 0

\* A record with the epoch of its partition was read under the present
\* assignment.
Fences(M, s) ==
    /\ s.epoch >= 1 /\ HoldsAssigned(s)
    /\ \A p \in Partitions, m \in M : m[1] = p /\ m[3] = EpochOf(s, p) => s.readMin[p] # 0

\* Nobody else moves the committed offset of an owned partition, so what waits
\* for a commit is not behind it.
Owns(C, s, position, own) ==
    \A p \in own :
        /\ C[p] <= position[p]
        /\ \A o \in s.observed[p] : o > C[p]
        /\ s.pending[p] # 0 => C[p] <= s.pending[p] /\ s.pending[p] <= s.completed[p]

Sound(L, C, D, M, s, position, own) ==
    /\ Decides(L, D, s) /\ Covers(L, D, s, position)
    /\ Fences(M, s) /\ Owns(C, s, position, own)

\* The offsets of a commit in progress.
Takes(L, C, D, s, taken, own) ==
    \A p \in Partitions :
        /\ Safe(L, D, p, taken[p])
        /\ taken[p] # 0 => p \in s.assigned
        /\ p \in own /\ taken[p] # 0 =>
              /\ C[p] <= taken[p] /\ taken[p] <= s.completed[p]
              /\ s.pending[p] # 0 => taken[p] <= s.pending[p]

\* A polled batch continues the position without leaving a payload out.
Continues(L, s, position, batch) ==
    \A p \in Partitions : \A x \in batch[p] :
        /\ p \in s.assigned /\ position[p] < x
        /\ \A o \in Offsets : position[p] < o /\ o < x /\ L[p][o] = "value" => o \in batch[p]

\* What is left of a batch was recorded before it is yielded.
Recorded(s, batch, epochs) ==
    /\ batch # Empty
    /\ \A p \in Partitions : batch[p] # {} => s.readMin[p] # 0 /\ epochs[p] \in 1..s.epoch

Live == reader.pc \in {"poll", "yield", "commit"}

\* A drain on behalf of a poll is followed by the yield of its batch.
Draining(L, C, D, s, r, own) ==
    /\ Takes(L, C, D, s, r.taken, own)
    /\ r.next # "poll"
    /\ r.next = "yield" => Continues(L, s, r.position, r.batch)

Inv ==
    /\ TypeOK
    /\ reset = "earliest" => skipped = {}
    /\ \A p \in Partitions : Safe(log, Past, p, committed[p])
    /\ k.consumer <=> Live
    /\ owned = {} \/ (owned = k.assigned /\ Live)
    /\ Live => Sound(log, committed, Past, metas, k, reader.position, owned)
    /\ reader.pc = "commit" => Draining(log, committed, Past, k, reader, owned)
    /\ reader.pc = "yield" => Recorded(k, reader.batch, reader.epochs)

-----------------------------------------------------------------------------
(* The operators.                                                          *)

\* The least member of a set of numbers.
LEMMA MinFacts ==
    ASSUME NEW S \in SUBSET Nat, S # {}
    PROVE  Min(S) \in S /\ \A x \in S : Min(S) <= x
<1> DEFINE R == {p \in Nat \X Nat : p[1] < p[2]}
<1>1. IsWellFoundedOn(R, Nat)
  BY Zenon, NatLessThanWellFounded DEF OpToRel
<1>2. PICK m \in S : \A y \in S : <<y, m>> \notin R
  <2> HIDE DEF R
  <2> QED
    BY Zenon, <1>1, WFMin
<1>3. ASSUME NEW y \in S PROVE m <= y
  <2>1. y < m => <<y, m>> \in R
    BY Zenon
  <2> QED
    BY <1>2, <2>1
<1> QED
  BY Zenon, <1>3 DEF Min

\* The greatest offset of a set: its least upper bound is one of them.
LEMMA MaxFacts ==
    ASSUME NEW S \in SUBSET Offsets, S # {}
    PROVE  Max(S) \in S /\ \A x \in S : x <= Max(S)
<1> DEFINE B == {n \in Nat : \A x \in S : x <= n}
<1>1. S \subseteq Nat /\ LogEnd \in B /\ B \subseteq Nat
  BY KafkaConstants DEF Offsets
<1>2. Min(B) \in B /\ \A n \in B : Min(B) <= n
  BY Zenon, <1>1, MinFacts
<1>3. PICK m \in B : \A n \in B : m <= n
  BY Zenon, <1>2
<1>4. m \in S
  <2>1. SUFFICES ASSUME m \notin S PROVE FALSE
    BY Zenon
  <2>2. \A x \in S : x <= m - 1
    BY <1>1, <1>3, <2>1
  <2>3. m - 1 \in Nat
    <3>1. PICK x \in S : TRUE
      BY Zenon
    <3>2. x \in Nat /\ m \in Nat /\ x <= m - 1
      BY Zenon, <1>1, <1>3, <2>2
    <3> QED
      BY <3>2
  <2>4. m - 1 \in B
    BY Zenon, <2>2, <2>3
  <2> QED
    BY <1>3, <2>3, <2>4
<1>5. \A x \in S : x <= m
  BY Zenon, <1>3
<1> HIDE DEF B
<1> QED
  BY Zenon, <1>4, <1>5 DEF Max

\* The sweep moves the frontier over a decided prefix of the observed offsets.
LEMMA AdvanceFacts ==
    ASSUME NEW s \in SourceType, NEW p \in Partitions, NEW t, t = Advance(s, p)
    PROVE  /\ t \in SourceType
           /\ t.consumer = s.consumer /\ t.epoch = s.epoch /\ t.pepoch = s.pepoch
           /\ t.assigned = s.assigned /\ t.readMin = s.readMin
           /\ \A q \in Partitions : t.ooo[q] \subseteq s.ooo[q]
                                    /\ t.tombstones[q] \subseteq s.tombstones[q]
           /\ \A q \in Partitions \ {p} : /\ t.completed[q] = s.completed[q]
                                          /\ t.observed[q] = s.observed[q]
                                          /\ t.pending[q] = s.pending[q]
           /\ \/ /\ t.completed[p] = s.completed[p] /\ t.observed[p] = s.observed[p]
                 /\ t.pending[p] = s.pending[p]
              \/ \E m \in s.observed[p] :
                    /\ t.completed[p] = m
                    /\ t.pending[p] = Larger(s.pending[p], m)
                    /\ t.observed[p] = {x \in s.observed[p] : x > m}
                    /\ \A x \in s.observed[p] : x <= m => x \in s.ooo[p] \cup s.tombstones[p]
<1> DEFINE done == s.ooo[p] \cup s.tombstones[p]
           swept == {o \in s.observed[p] : \A x \in s.observed[p] : x <= o => x \in done}
           m == Max(swept)
<1>1. s.observed[p] \subseteq Offsets /\ Offsets \subseteq Nat
  BY DEF SourceType, Offsets
<1>2. CASE swept = {}
  <2>1. t = s
    BY Zenon, <1>2 DEF Advance
  <2> QED
    BY Zenon, <2>1
<1>3. CASE swept # {}
  <2>1. m \in swept /\ \A x \in swept : x <= m
    BY Zenon, <1>1, <1>3, MaxFacts
  <2>2. t = [s EXCEPT !.ooo[p] = s.ooo[p] \ swept, !.tombstones[p] = s.tombstones[p] \ swept,
                      !.completed[p] = m, !.observed[p] = s.observed[p] \ swept,
                      !.pending[p] = Larger(s.pending[p], m)]
    BY Zenon, <1>3 DEF Advance
  <2> HIDE DEF m
  <2>3. m \in Nat /\ m \in 0..LogEnd /\ m \in s.observed[p]
        /\ \A x \in s.observed[p] : x <= m => x \in done
    BY <1>1, <2>1, KafkaConstants DEF Offsets
  <2>4. s.observed[p] \ swept = {x \in s.observed[p] : x > m}
    <3>1. ASSUME NEW x \in s.observed[p], x <= m PROVE x \in swept
      <4>1. ASSUME NEW y \in s.observed[p], y <= x PROVE y \in done
        <5>1. x \in Nat /\ y \in Nat
          BY Zenon, <1>1
        <5> QED
          BY <2>3, <3>1, <4>1, <5>1
      <4> QED
        BY Zenon, <4>1
    <3> HIDE DEF swept
    <3>2. \A x \in s.observed[p] : x \in Nat
      BY Zenon, <1>1
    <3> QED
      BY <2>1, <2>3, <3>1, <3>2
  <2> HIDE DEF swept
  <2>5. Larger(s.pending[p], m) \in 0..LogEnd
    BY Zenon, <2>3 DEF Larger, SourceType
  <2> DEFINE ooo == [s.ooo EXCEPT ![p] = s.ooo[p] \ swept]
             tombstones == [s.tombstones EXCEPT ![p] = s.tombstones[p] \ swept]
             completed == [s.completed EXCEPT ![p] = m]
             observed == [s.observed EXCEPT ![p] = s.observed[p] \ swept]
             pending == [s.pending EXCEPT ![p] = Larger(s.pending[p], m)]
  <2>6. t = [s EXCEPT !.ooo = ooo, !.tombstones = tombstones, !.completed = completed,
                      !.observed = observed, !.pending = pending]
    BY Zenon, <2>2 DEF SourceType
  <2>7. /\ ooo \in [Partitions -> SUBSET Offsets] /\ tombstones \in [Partitions -> SUBSET Offsets]
        /\ completed \in [Partitions -> 0..LogEnd] /\ pending \in [Partitions -> 0..LogEnd]
        /\ observed \in [Partitions -> SUBSET Offsets]
    BY Zenon, <2>3, <2>5 DEF SourceType
  <2>8. \A q \in Partitions :
           /\ ooo[q] \subseteq s.ooo[q] /\ tombstones[q] \subseteq s.tombstones[q]
           /\ q # p => completed[q] = s.completed[q] /\ observed[q] = s.observed[q]
                       /\ pending[q] = s.pending[q]
           /\ q = p => completed[q] = m /\ pending[q] = Larger(s.pending[p], m)
                       /\ observed[q] = s.observed[p] \ swept
    BY Zenon DEF SourceType
  <2> HIDE DEF ooo, tombstones, completed, observed, pending
  <2>9. t \in SourceType
    BY Zenon, <2>6, <2>7 DEF SourceType
  <2>10. /\ t.ooo = ooo /\ t.tombstones = tombstones /\ t.completed = completed
         /\ t.observed = observed /\ t.pending = pending
         /\ t.consumer = s.consumer /\ t.epoch = s.epoch /\ t.pepoch = s.pepoch
         /\ t.assigned = s.assigned /\ t.readMin = s.readMin
    BY Zenon, <2>6 DEF SourceType
  <2> QED
    BY ZenonT(60), <2>3, <2>4, <2>8, <2>9, <2>10
<1> QED
  BY Zenon, <1>2, <1>3

\* The sweep keeps what makes the source sound: the frontier it leaves behind
\* and the offset it queues for a commit have only decided payloads below.
LEMMA AdvanceSound ==
    ASSUME NEW L, NEW C \in [Partitions -> 0..LogEnd], NEW D, NEW M,
           NEW s \in SourceType, NEW p \in Partitions, NEW position \in [Partitions -> 0..LogEnd],
           NEW own \in SUBSET Partitions, Sound(L, C, D, M, s, position, own),
           NEW t, t = Advance(s, p)
    PROVE  Sound(L, C, D, M, t, position, own)
<1> DEFINE same(q) == /\ t.completed[q] = s.completed[q] /\ t.observed[q] = s.observed[q]
                      /\ t.pending[q] = s.pending[q]
           moved(m) == /\ t.completed[p] = m
                       /\ t.pending[p] = Larger(s.pending[p], m)
                       /\ t.observed[p] = {x \in s.observed[p] : x > m}
                       /\ \A x \in s.observed[p] : x <= m => x \in s.ooo[p] \cup s.tombstones[p]
<1>1. /\ t.epoch = s.epoch /\ t.pepoch = s.pepoch
      /\ t.assigned = s.assigned /\ t.readMin = s.readMin
      /\ \A q \in Partitions : t.ooo[q] \subseteq s.ooo[q] /\ t.tombstones[q] \subseteq s.tombstones[q]
      /\ \A q \in Partitions : q # p => same(q)
      /\ same(p) \/ \E m \in s.observed[p] : moved(m)
  BY SMTT(60), AdvanceFacts
<1>2. \A q \in Partitions : s.observed[q] \subseteq Offsets /\ s.pending[q] \in 0..LogEnd
                             /\ s.completed[q] \in 0..LogEnd /\ C[q] \in 0..LogEnd
                             /\ position[q] \in 0..LogEnd
  BY Zenon DEF SourceType
<1>3. Offsets \subseteq Nat /\ Offsets \subseteq 0..LogEnd /\ 0..LogEnd \subseteq Nat
  BY KafkaConstants DEF Offsets
<1>4. /\ Decides(L, D, s) /\ Covers(L, D, s, position) /\ Fences(M, s) /\ Owns(C, s, position, own)
  BY Zenon DEF Sound
<1>5. ASSUME NEW m \in s.observed[p], moved(m)
      PROVE  Safe(L, D, p, t.pending[p])
  <2>1. Safe(L, D, p, m)
    <3>1. ASSUME NEW o \in Offsets, o <= m, L[p][o] = "value" PROVE <<p, o>> \in D
      <4>1. o <= position[p]
        <5>1. m <= position[p]
          BY Zenon, <1>4 DEF Covers
        <5>2. m \in Nat /\ o \in Nat /\ position[p] \in Nat
          BY Zenon, <1>2, <1>3
        <5> QED
          BY <3>1, <5>1, <5>2
      <4>2. <<p, o>> \in D \/ o \in s.observed[p]
        BY Zenon, <1>4, <3>1, <4>1 DEF Covers
      <4>3. o \in s.observed[p] => o \in s.ooo[p] \cup s.tombstones[p]
        BY Zenon, <1>5, <3>1
      <4> QED
        BY Zenon, <1>4, <3>1, <4>2, <4>3 DEF Decides
    <3> QED
      BY Zenon, <3>1 DEF Safe
  <2>2. t.pending[p] \in {s.pending[p], m}
    BY Zenon, <1>5 DEF Larger
  <2> QED
    BY Zenon, <1>4, <2>1, <2>2 DEF Decides
<1>6. Decides(L, D, t)
  <2>1. ASSUME NEW q \in Partitions PROVE Safe(L, D, q, t.pending[q])
    <3>1. same(q) => Safe(L, D, q, t.pending[q])
      BY Zenon, <1>4 DEF Decides
    <3> QED
      BY Zenon, <1>1, <1>5, <3>1
  <2> QED
    BY Zenon, <1>1, <1>4, <2>1 DEF Decides
<1>7. Covers(L, D, t, position)
  <2> SUFFICES ASSUME NEW q \in Partitions
               PROVE  /\ t.completed[q] <= position[q]
                      /\ \A o \in t.observed[q] : t.completed[q] < o /\ o <= position[q]
                      /\ \A o \in Offsets : o <= position[q] /\ L[q][o] = "value" =>
                            <<q, o>> \in D \/ o \in t.observed[q]
    BY Zenon DEF Covers
  <2>1. CASE same(q)
    BY Zenon, <1>4, <2>1 DEF Covers
  <2>2. ASSUME q = p, NEW m \in s.observed[p], moved(m)
        PROVE  /\ t.completed[q] <= position[q]
               /\ \A o \in t.observed[q] : t.completed[q] < o /\ o <= position[q]
               /\ \A o \in Offsets : o <= position[q] /\ L[q][o] = "value" =>
                     <<q, o>> \in D \/ o \in t.observed[q]
    <3>1. t.completed[q] <= position[q] /\ \A o \in t.observed[q] : t.completed[q] < o /\ o <= position[q]
      BY Zenon, <1>4, <2>2 DEF Covers
    <3>2. ASSUME NEW o \in Offsets, o <= position[q], L[q][o] = "value"
          PROVE  <<q, o>> \in D \/ o \in t.observed[q]
      <4>1. <<p, o>> \in D \/ o \in s.observed[p]
        BY Zenon, <1>4, <2>2, <3>2 DEF Covers
      <4>2. o > m \/ o <= m
        <5>1. m \in Nat /\ o \in Nat
          BY Zenon, <1>2, <1>3
        <5> QED
          BY <5>1
      <4>3. o \in s.observed[p] /\ o <= m => <<p, o>> \in D
        BY Zenon, <1>4, <2>2, <3>2 DEF Decides
      <4> QED
        BY Zenon, <2>2, <4>1, <4>2, <4>3
    <3> QED
      BY Zenon, <3>1, <3>2
  <2> QED
    BY Zenon, <1>1, <2>1, <2>2
<1>8. Fences(M, t)
  <2>1. ASSUME NEW q \in Partitions \ s.assigned
        PROVE  t.observed[q] = {} /\ t.pending[q] = 0 /\ t.completed[q] = 0
    BY <1>1, <1>4 DEF Fences, HoldsAssigned
  <2>2. \A q \in Partitions : EpochOf(t, q) = EpochOf(s, q)
    BY Zenon, <1>1 DEF EpochOf
  <2> QED
    BY <1>1, <1>4, <2>1, <2>2 DEF Fences, HoldsAssigned
<1>9. Owns(C, t, position, own)
  <2> SUFFICES ASSUME NEW q \in own
               PROVE  /\ C[q] <= position[q]
                      /\ \A o \in t.observed[q] : o > C[q]
                      /\ t.pending[q] # 0 => C[q] <= t.pending[q] /\ t.pending[q] <= t.completed[q]
    BY Zenon DEF Owns
  <2>1. CASE same(q)
    BY Zenon, <1>4, <2>1 DEF Owns
  <2>2. ASSUME q = p, NEW m \in s.observed[p], moved(m)
        PROVE  /\ \A o \in t.observed[q] : o > C[q]
               /\ C[q] <= t.pending[q] /\ t.pending[q] <= t.completed[q]
    <3>1. s.completed[p] < m /\ C[p] < m /\ \A o \in s.observed[p] : o > C[p]
      BY Zenon, <1>4, <2>2 DEF Covers, Owns
    <3>2. s.pending[p] # 0 => s.pending[p] <= s.completed[p]
      BY Zenon, <1>4, <2>2 DEF Owns
    <3>3. m \in 0..LogEnd
      BY Zenon, <1>2, <1>3
    <3>4. Larger(s.pending[p], m) = m
      BY <1>2, <3>1, <3>2, <3>3 DEF Larger
    <3> QED
      BY <1>2, <2>2, <3>1, <3>3, <3>4
  <2> QED
    BY Zenon, <1>1, <1>4, <2>1, <2>2 DEF Owns
<1> QED
  BY Zenon, <1>6, <1>7, <1>8, <1>9 DEF Sound

\* Nor does the sweep fall behind the offsets of a commit in progress.
LEMMA AdvanceDraining ==
    ASSUME NEW L, NEW C \in [Partitions -> 0..LogEnd], NEW D, NEW M, NEW s \in SourceType,
           NEW p \in Partitions, NEW r \in ReaderType, NEW own \in SUBSET Partitions,
           Sound(L, C, D, M, s, r.position, own), Draining(L, C, D, s, r, own),
           NEW t, t = Advance(s, p)
    PROVE  Draining(L, C, D, t, r, own)
<1>1. /\ t.assigned = s.assigned
      /\ \A q \in Partitions : q # p => t.completed[q] = s.completed[q] /\ t.pending[q] = s.pending[q]
      /\ \/ t.completed[p] = s.completed[p] /\ t.pending[p] = s.pending[p]
         \/ \E m \in s.observed[p] : t.completed[p] = m /\ t.pending[p] = Larger(s.pending[p], m)
  BY AdvanceFacts
<1>2. s.observed[p] \subseteq Offsets /\ s.completed[p] \in Nat /\ s.pending[p] \in 0..LogEnd
      /\ r.taken[p] \in 0..LogEnd
  BY DEF SourceType, ReaderType
<1>3. Offsets \subseteq Nat /\ 0..LogEnd \subseteq Nat
  BY DEF Offsets
<1>4. \A m \in s.observed[p] : s.completed[p] < m
  BY Zenon DEF Sound, Covers
<1>5. ASSUME NEW m \in s.observed[p], r.taken[p] <= s.completed[p]
      PROVE  r.taken[p] <= m /\ r.taken[p] <= Larger(s.pending[p], m)
  <2>1. m \in Nat /\ s.completed[p] < m /\ r.taken[p] \in Nat /\ s.pending[p] \in Nat
    BY Zenon, <1>2, <1>3, <1>4
  <2>2. r.taken[p] <= m
    BY <1>2, <1>5, <2>1
  <2> QED
    BY <2>1, <2>2 DEF Larger
<1>6. Takes(L, C, D, t, r.taken, own)
  <2>1. Takes(L, C, D, s, r.taken, own)
    BY Zenon DEF Draining
  <2>2. ASSUME NEW q \in Partitions, q \in own, r.taken[q] # 0
        PROVE  /\ C[q] <= r.taken[q] /\ r.taken[q] <= t.completed[q]
               /\ t.pending[q] # 0 => r.taken[q] <= t.pending[q]
    <3>1. /\ C[q] <= r.taken[q] /\ r.taken[q] <= s.completed[q]
          /\ s.pending[q] # 0 => r.taken[q] <= s.pending[q]
      BY Zenon, <2>1, <2>2 DEF Takes
    <3> QED
      BY Zenon, <1>1, <1>5, <3>1
  <2> QED
    BY Zenon, <1>1, <2>1, <2>2 DEF Takes
<1>7. Continues(L, s, r.position, r.batch) => Continues(L, t, r.position, r.batch)
  BY Zenon, <1>1 DEF Continues
<1> QED
  BY Zenon, <1>6, <1>7 DEF Draining

\* More decisions leave everything sound.
LEMMA DecidedGrows ==
    ASSUME NEW L, NEW C, NEW D, NEW E, D \subseteq E, NEW M, NEW s, NEW position, NEW own, NEW r
    PROVE  /\ \A p, n : Safe(L, D, p, n) => Safe(L, E, p, n)
           /\ Sound(L, C, D, M, s, position, own) => Sound(L, C, E, M, s, position, own)
           /\ Draining(L, C, D, s, r, own) => Draining(L, C, E, s, r, own)
<1>1. \A p, n : Safe(L, D, p, n) => Safe(L, E, p, n)
  BY Zenon DEF Safe
<1>2. Decides(L, D, s) => Decides(L, E, s)
  BY Zenon, <1>1 DEF Decides
<1>3. Covers(L, D, s, position) => Covers(L, E, s, position)
  BY Zenon DEF Covers
<1>4. Takes(L, C, D, s, r.taken, own) => Takes(L, C, E, s, r.taken, own)
  BY Zenon, <1>1 DEF Takes
<1> QED
  BY Zenon, <1>1, <1>2, <1>3, <1>4 DEF Sound, Draining

\* A forgotten partition holds nothing, the others what they held.
LEMMA ForgetFacts ==
    ASSUME NEW s \in SourceType, NEW ps, NEW t, t = Forget(s, ps)
    PROVE  /\ t \in SourceType
           /\ t.consumer = s.consumer /\ t.epoch = s.epoch /\ t.assigned = s.assigned
           /\ \A p \in Partitions :
                 IF p \in ps
                 THEN /\ t.pepoch[p] = 0 /\ t.completed[p] = 0 /\ t.ooo[p] = {} /\ t.tombstones[p] = {}
                      /\ t.readMin[p] = 0 /\ t.observed[p] = {} /\ t.pending[p] = 0
                 ELSE /\ t.pepoch[p] = s.pepoch[p] /\ t.completed[p] = s.completed[p]
                      /\ t.ooo[p] = s.ooo[p] /\ t.tombstones[p] = s.tombstones[p]
                      /\ t.readMin[p] = s.readMin[p] /\ t.observed[p] = s.observed[p]
                      /\ t.pending[p] = s.pending[p]
<1> DEFINE W(f, d) == Without(f, ps, d)
           pepoch == W(s.pepoch, 0)
           completed == W(s.completed, 0)
           ooo == W(s.ooo, {})
           tombstones == W(s.tombstones, {})
           readMin == W(s.readMin, 0)
           observed == W(s.observed, {})
           pending == W(s.pending, 0)
<1>1. t = [s EXCEPT !.pepoch = pepoch, !.completed = completed, !.ooo = ooo,
                    !.tombstones = tombstones, !.readMin = readMin, !.observed = observed,
                    !.pending = pending]
  BY Zenon DEF Forget
<1>2. \A p \in Partitions :
         /\ pepoch[p] = IF p \in ps THEN 0 ELSE s.pepoch[p]
         /\ completed[p] = IF p \in ps THEN 0 ELSE s.completed[p]
         /\ ooo[p] = IF p \in ps THEN {} ELSE s.ooo[p]
         /\ tombstones[p] = IF p \in ps THEN {} ELSE s.tombstones[p]
         /\ readMin[p] = IF p \in ps THEN 0 ELSE s.readMin[p]
         /\ observed[p] = IF p \in ps THEN {} ELSE s.observed[p]
         /\ pending[p] = IF p \in ps THEN 0 ELSE s.pending[p]
  BY Zenon DEF Without
<1>3. pepoch \in [Partitions -> Nat]
  BY Zenon DEF Without, SourceType
<1>4. completed \in [Partitions -> 0..LogEnd] /\ readMin \in [Partitions -> 0..LogEnd]
      /\ pending \in [Partitions -> 0..LogEnd]
  BY KafkaConstants DEF Without, SourceType
<1>5. ooo \in [Partitions -> SUBSET Offsets] /\ tombstones \in [Partitions -> SUBSET Offsets]
      /\ observed \in [Partitions -> SUBSET Offsets]
  BY Zenon DEF Without, SourceType
<1> HIDE DEF pepoch, completed, ooo, tombstones, readMin, observed, pending
<1>6. t \in SourceType
  BY ZenonT(60), <1>1, <1>3, <1>4, <1>5 DEF SourceType
<1>7. /\ t.consumer = s.consumer /\ t.epoch = s.epoch /\ t.assigned = s.assigned
      /\ t.pepoch = pepoch /\ t.completed = completed /\ t.ooo = ooo /\ t.tombstones = tombstones
      /\ t.readMin = readMin /\ t.observed = observed /\ t.pending = pending
  BY Zenon, <1>1 DEF SourceType
<1> QED
  BY Zenon, <1>2, <1>6, <1>7

\* t is the source s after a rebalance that assigns it ps: everything is
\* forgotten and a new epoch is open.
Rebalanced(s, ps, t) ==
    /\ t \in SourceType /\ t.assigned = ps /\ t.consumer = s.consumer
    /\ t.epoch = s.epoch + 2
    /\ \A p \in Partitions :
          /\ t.pepoch[p] = IF p \in ps THEN s.epoch + 2 ELSE 0
          /\ t.completed[p] = 0 /\ t.readMin[p] = 0
          /\ t.observed[p] = {} /\ t.pending[p] = 0
          /\ t.ooo[p] \subseteq s.ooo[p] /\ t.tombstones[p] \subseteq s.tombstones[p]

\* A rebalance forgets everything and opens a new epoch.
LEMMA RebalanceFacts ==
    ASSUME NEW s \in SourceType, HoldsAssigned(s), NEW ps \in SUBSET Partitions,
           NEW t, t = Assigned(Revoked(s, s.assigned), ps)
    PROVE  Rebalanced(s, ps, t)
<1>1. PICK F : F = Forget(s, s.assigned)
  BY Zenon
<1>2. PICK R : R = [F EXCEPT !.epoch = F.epoch + 1, !.assigned = F.assigned \ s.assigned]
  BY Zenon
<1>3. /\ F \in SourceType /\ F.consumer = s.consumer /\ F.epoch = s.epoch /\ F.assigned = s.assigned
      /\ \A p \in Partitions :
            /\ F.pepoch[p] = 0 /\ F.completed[p] = 0 /\ F.readMin[p] = 0
            /\ F.observed[p] = {} /\ F.pending[p] = 0
            /\ F.ooo[p] \subseteq s.ooo[p] /\ F.tombstones[p] \subseteq s.tombstones[p]
  BY <1>1, ForgetFacts DEF HoldsAssigned
<1>4. /\ R \in SourceType /\ R.consumer = s.consumer /\ R.epoch = s.epoch + 1 /\ R.assigned = {}
      /\ R.pepoch = F.pepoch /\ R.completed = F.completed /\ R.readMin = F.readMin
      /\ R.observed = F.observed /\ R.pending = F.pending /\ R.ooo = F.ooo
      /\ R.tombstones = F.tombstones
  <2>1. F.epoch + 1 \in Nat /\ F.assigned \ s.assigned \in SUBSET Partitions
        /\ F.assigned \ s.assigned = {} /\ F.epoch + 1 = s.epoch + 1
    BY <1>3 DEF SourceType
  <2> QED
    BY Zenon, <1>2, <1>3, <2>1 DEF SourceType
<1>5. PICK G : G = Forget(R, {})
  BY Zenon
<1>6. /\ G \in SourceType /\ G.consumer = s.consumer
      /\ \A p \in Partitions :
            /\ G.pepoch[p] = 0 /\ G.completed[p] = 0 /\ G.readMin[p] = 0
            /\ G.observed[p] = {} /\ G.pending[p] = 0
            /\ G.ooo[p] \subseteq s.ooo[p] /\ G.tombstones[p] \subseteq s.tombstones[p]
  BY <1>3, <1>4, <1>5, ForgetFacts
<1>7. PICK e : e = s.epoch + 2
  BY Zenon
<1> DEFINE pepoch == [p \in Partitions |-> IF p \in ps /\ G.pepoch[p] = 0 THEN e ELSE G.pepoch[p]]
<1>8. t = [G EXCEPT !.epoch = e, !.assigned = ps, !.pepoch = pepoch]
  <2>1. R = Revoked(s, s.assigned)
    BY Zenon, <1>1, <1>2 DEF Revoked
  <2>2. R.assigned \ ps = {} /\ R.epoch + 1 = e
    BY <1>4, <1>7 DEF SourceType
  <2> QED
    BY Zenon, <1>5, <2>1, <2>2 DEF Assigned
<1>9. e \in Nat /\ pepoch \in [Partitions -> Nat]
      /\ \A p \in Partitions : pepoch[p] = IF p \in ps THEN e ELSE 0
  BY <1>6, <1>7 DEF SourceType
<1> HIDE DEF pepoch
<1>10. t \in SourceType
  BY ZenonT(60), <1>6, <1>8, <1>9 DEF SourceType
<1>11. /\ t.epoch = e /\ t.assigned = ps /\ t.pepoch = pepoch /\ t.consumer = G.consumer
       /\ t.completed = G.completed /\ t.readMin = G.readMin /\ t.observed = G.observed
       /\ t.pending = G.pending /\ t.ooo = G.ooo /\ t.tombstones = G.tombstones
  BY Zenon, <1>6, <1>8 DEF SourceType
<1>12. ASSUME NEW p \in Partitions
       PROVE  /\ t.pepoch[p] = IF p \in ps THEN s.epoch + 2 ELSE 0
              /\ t.completed[p] = 0 /\ t.readMin[p] = 0
              /\ t.observed[p] = {} /\ t.pending[p] = 0
              /\ t.ooo[p] \subseteq s.ooo[p] /\ t.tombstones[p] \subseteq s.tombstones[p]
  <2>1. t.pepoch[p] = IF p \in ps THEN s.epoch + 2 ELSE 0
    BY Zenon, <1>7, <1>9, <1>11
  <2>2. /\ G.completed[p] = 0 /\ G.readMin[p] = 0 /\ G.observed[p] = {} /\ G.pending[p] = 0
        /\ G.ooo[p] \subseteq s.ooo[p] /\ G.tombstones[p] \subseteq s.tombstones[p]
    BY Zenon, <1>6
  <2> QED
    BY Zenon, <1>11, <2>1, <2>2
<1> QED
  BY Zenon, <1>6, <1>7, <1>10, <1>11, <1>12 DEF Rebalanced

\* No record was read under the new epoch; the positions are past no payload
\* that is to be read.
LEMMA RebalanceSound ==
    ASSUME NEW L, NEW C \in [Partitions -> 0..LogEnd], NEW D, NEW s \in SourceType,
           NEW M \in SUBSET (Partitions \X Offsets \X (1..s.epoch)),
           NEW ps \in SUBSET Partitions, NEW t, t = Assigned(Revoked(s, s.assigned), ps),
           Fences(M, s), Decides(L, D, s), NEW from \in [Partitions -> 0..LogEnd],
           \A p \in Partitions : Safe(L, D, p, from[p]) /\ C[p] <= from[p]
    PROVE  Sound(L, C, D, M, t, from, ps)
<1>1. PICK e : e = s.epoch + 2
  BY Zenon
<1>2. /\ t.epoch = e /\ t.assigned = ps
      /\ \A p \in Partitions :
            /\ t.pepoch[p] = IF p \in ps THEN e ELSE 0
            /\ t.completed[p] = 0 /\ t.readMin[p] = 0
            /\ t.observed[p] = {} /\ t.pending[p] = 0
            /\ t.ooo[p] \subseteq s.ooo[p] /\ t.tombstones[p] \subseteq s.tombstones[p]
  <2>1. HoldsAssigned(s)
    BY Zenon DEF Fences
  <2>2. Rebalanced(s, ps, t)
    BY Zenon, <2>1, RebalanceFacts
  <2> QED
    BY Zenon, <1>1, <2>2 DEF Rebalanced
<1>3. e \in Nat /\ e > s.epoch /\ e \in 1..e /\ e >= 1
  BY <1>1 DEF SourceType
<1>4. Decides(L, D, t)
  <2>1. \A p \in Partitions : Safe(L, D, p, 0)
    BY DEF Safe, Offsets
  <2> QED
    BY Zenon, <1>2, <2>1 DEF Decides
<1>5. Covers(L, D, t, from)
  <2>1. \A p \in Partitions : 0 <= from[p]
    BY KafkaConstants
  <2> QED
    BY Zenon, <1>2, <2>1 DEF Covers, Safe
<1>6. Fences(M, t)
  <2>1. \A p \in Partitions : EpochOf(t, p) = e
    BY Zenon, <1>2, <1>3 DEF EpochOf
  <2>2. \A m \in M : m[3] \in 1..s.epoch
    BY Zenon
  <2>3. \A m \in M : m[3] # e
    BY <1>3, <2>2 DEF SourceType
  <2> QED
    BY Zenon, <1>2, <1>3, <2>1, <2>3 DEF Fences, HoldsAssigned
<1>7. Owns(C, t, from, ps)
  BY <1>2 DEF Owns
<1> QED
  BY Zenon, <1>4, <1>5, <1>6, <1>7 DEF Sound

\* The position behind a batch.
Ended(position, os) == [p \in Partitions |-> IF os[p] = {} THEN position[p] ELSE Max(os[p])]

\* It is an offset of every partition.
LEMMA EndedType ==
    ASSUME NEW position \in [Partitions -> 0..LogEnd], NEW os \in [Partitions -> SUBSET Offsets]
    PROVE  Ended(position, os) \in [Partitions -> 0..LogEnd]
<1>1. \A p \in Partitions : os[p] # {} => Max(os[p]) \in Offsets
  BY Zenon, MaxFacts
<1>2. Offsets \subseteq 0..LogEnd
  BY KafkaConstants DEF Offsets
<1> QED
  BY Zenon, <1>1, <1>2 DEF Ended

\* What recording a batch changes.
LEMMA ObservedFacts ==
    ASSUME NEW s \in SourceType, NEW os \in [Partitions -> SUBSET Offsets],
           NEW t, t = Observed(s, os)
    PROVE  /\ t \in SourceType
           /\ t.consumer = s.consumer /\ t.epoch = s.epoch /\ t.pepoch = s.pepoch
           /\ t.assigned = s.assigned /\ t.completed = s.completed /\ t.ooo = s.ooo
           /\ t.tombstones = s.tombstones /\ t.pending = s.pending
           /\ \A p \in Partitions :
                 /\ t.observed[p] = s.observed[p] \cup {o \in os[p] : o > Floor(s, p)}
                 /\ t.readMin[p] = 0 <=> (s.readMin[p] = 0 /\ os[p] = {})
<1> DEFINE readMin == [p \in Partitions |-> IF s.readMin[p] = 0 /\ os[p] # {} THEN Min(os[p]) ELSE s.readMin[p]]
           observed == [p \in Partitions |-> s.observed[p] \cup {o \in os[p] : o > Floor(s, p)}]
<1>1. t = [s EXCEPT !.readMin = readMin, !.observed = observed]
  BY Zenon DEF Observed
<1>2. Offsets \subseteq 0..LogEnd /\ Offsets \subseteq Nat \ {0}
  BY KafkaConstants DEF Offsets
<1>3. \A p \in Partitions : os[p] # {} => Min(os[p]) \in 0..LogEnd /\ Min(os[p]) # 0
  <2> SUFFICES ASSUME NEW p \in Partitions, os[p] # {} PROVE Min(os[p]) \in os[p]
    BY Zenon, <1>2
  <2>1. os[p] \in SUBSET Nat
    BY Zenon, <1>2
  <2> QED
    BY Zenon, <2>1, MinFacts
<1>4. readMin \in [Partitions -> 0..LogEnd]
  BY Zenon, <1>3 DEF SourceType
<1>5. observed \in [Partitions -> SUBSET Offsets]
  BY Zenon DEF SourceType
<1>6. \A p \in Partitions :
         /\ observed[p] = s.observed[p] \cup {o \in os[p] : o > Floor(s, p)}
         /\ readMin[p] = 0 <=> (s.readMin[p] = 0 /\ os[p] = {})
  BY Zenon, <1>3
<1> HIDE DEF readMin, observed
<1>7. t \in SourceType
  BY Zenon, <1>1, <1>4, <1>5 DEF SourceType
<1>8. /\ t.readMin = readMin /\ t.observed = observed
      /\ t.consumer = s.consumer /\ t.epoch = s.epoch /\ t.pepoch = s.pepoch
      /\ t.assigned = s.assigned /\ t.completed = s.completed /\ t.ooo = s.ooo
      /\ t.tombstones = s.tombstones /\ t.pending = s.pending
  BY Zenon, <1>1 DEF SourceType
<1> QED
  BY Zenon, <1>6, <1>7, <1>8

\* Recording a batch extends the coverage to the batch's last offset.
LEMMA ObservedSound ==
    ASSUME NEW L, NEW C \in [Partitions -> 0..LogEnd], NEW D, NEW M, NEW s \in SourceType,
           NEW position \in [Partitions -> 0..LogEnd], NEW own \in SUBSET Partitions,
           NEW os \in [Partitions -> SUBSET Offsets],
           Sound(L, C, D, M, s, position, own), Continues(L, s, position, os),
           NEW t, t = Observed(s, os),
           NEW after, after = Ended(position, os)
    PROVE  Sound(L, C, D, M, t, after, own)
<1>1. /\ t.epoch = s.epoch /\ t.pepoch = s.pepoch
      /\ t.assigned = s.assigned /\ t.completed = s.completed /\ t.ooo = s.ooo
      /\ t.tombstones = s.tombstones /\ t.pending = s.pending
      /\ \A p \in Partitions :
            /\ t.observed[p] = s.observed[p] \cup {o \in os[p] : o > Floor(s, p)}
            /\ t.readMin[p] = 0 <=> (s.readMin[p] = 0 /\ os[p] = {})
  BY ObservedFacts
<1>2. /\ Decides(L, D, s) /\ Covers(L, D, s, position) /\ Fences(M, s) /\ Owns(C, s, position, own)
  BY Zenon DEF Sound
<1>3. \A p \in Partitions : s.observed[p] \in SUBSET Offsets /\ s.completed[p] \in 0..LogEnd
                             /\ position[p] \in 0..LogEnd /\ s.readMin[p] \in 0..LogEnd
                             /\ C[p] \in 0..LogEnd /\ os[p] \in SUBSET Offsets
  BY Zenon DEF SourceType
<1>4. Offsets \subseteq 0..LogEnd /\ Offsets \subseteq Nat \ {0} /\ 0..LogEnd \subseteq Nat
  BY KafkaConstants DEF Offsets
<1>5. ASSUME NEW p \in Partitions, os[p] # {}
      PROVE  Max(os[p]) \in os[p] /\ \A o \in os[p] : o <= Max(os[p])
  BY Zenon, <1>5, MaxFacts
<1>6. ASSUME NEW p \in Partitions, NEW o \in os[p] PROVE o > Floor(s, p)
  <2>1. s.observed[p] # {} => Max(s.observed[p]) \in s.observed[p]
    BY Zenon, <1>3, MaxFacts
  <2>2. Floor(s, p) \in Nat /\ Floor(s, p) <= position[p]
    BY Zenon, <1>2, <1>3, <1>4, <2>1 DEF Floor, Covers
  <2>3. position[p] < o
    BY Zenon DEF Continues
  <2>4. o \in Nat /\ position[p] \in Nat
    BY Zenon, <1>3, <1>4
  <2> QED
    BY <2>2, <2>3, <2>4
<1>7. \A p \in Partitions : t.observed[p] = s.observed[p] \cup os[p]
  BY Zenon, <1>1, <1>6
<1>8. after \in [Partitions -> 0..LogEnd]
  BY Zenon, EndedType
<1>9. \A p \in Partitions : after[p] = IF os[p] = {} THEN position[p] ELSE Max(os[p])
  BY Zenon DEF Ended
<1>10. ASSUME NEW p \in Partitions
       PROVE  /\ position[p] <= after[p]
              /\ \A o \in os[p] : position[p] < o /\ o <= after[p]
              /\ \A o \in Offsets : o <= after[p] /\ L[p][o] = "value" => o <= position[p] \/ o \in os[p]
  <2>1. CASE os[p] = {}
    BY <1>3, <1>4, <1>9, <2>1
  <2>2. CASE os[p] # {}
    <3>1. PICK x \in os[p] : after[p] = x /\ \A o \in os[p] : o <= x
      BY Zenon, <1>5, <1>9, <2>2
    <3>2. position[p] < x /\ \A o \in os[p] : position[p] < o
      BY Zenon DEF Continues
    <3>3. \A o \in Offsets : position[p] < o /\ o < x /\ L[p][o] = "value" => o \in os[p]
      BY Zenon DEF Continues
    <3>4. x \in Nat /\ position[p] \in Nat
      BY Zenon, <1>3, <1>4
    <3>5. ASSUME NEW o \in Offsets, o <= x, L[p][o] = "value" PROVE o <= position[p] \/ o \in os[p]
      <4>1. o \in Nat
        BY Zenon, <1>4
      <4>2. o <= position[p] \/ o = x \/ (position[p] < o /\ o < x)
        BY <3>4, <3>5, <4>1
      <4> QED
        BY Zenon, <3>3, <3>5, <4>2
    <3> QED
      BY <3>1, <3>2, <3>4, <3>5
  <2> QED
    BY Zenon, <2>1, <2>2
<1>11. Decides(L, D, t)
  <2>1. t.pending = s.pending /\ t.ooo = s.ooo /\ t.tombstones = s.tombstones
    BY Zenon, <1>1
  <2> QED
    BY Zenon, <1>2, <2>1 DEF Decides
<1>12. Covers(L, D, t, after)
  <2> SUFFICES ASSUME NEW p \in Partitions
               PROVE  /\ s.completed[p] <= after[p]
                      /\ \A o \in t.observed[p] : s.completed[p] < o /\ o <= after[p]
                      /\ \A o \in Offsets : o <= after[p] /\ L[p][o] = "value" =>
                            <<p, o>> \in D \/ o \in t.observed[p]
    BY Zenon, <1>1 DEF Covers
  <2>1. /\ s.completed[p] <= position[p]
        /\ \A o \in s.observed[p] : s.completed[p] < o /\ o <= position[p]
        /\ \A o \in Offsets : o <= position[p] /\ L[p][o] = "value" =>
              <<p, o>> \in D \/ o \in s.observed[p]
    BY Zenon, <1>2 DEF Covers
  <2>2. s.completed[p] \in Nat /\ position[p] \in Nat /\ after[p] \in Nat
    BY Zenon, <1>3, <1>4, <1>8
  <2>3. \A o \in s.observed[p] \cup os[p] : o \in Nat
    BY Zenon, <1>3, <1>4
  <2> QED
    BY <1>7, <1>10, <2>1, <2>2, <2>3
<1>13. \A p \in Partitions : EpochOf(t, p) = EpochOf(s, p)
  BY Zenon, <1>1 DEF EpochOf
<1>14. Fences(M, t)
  <2>1. \A p \in Partitions : p \notin s.assigned => os[p] = {}
    BY Zenon DEF Continues
  <2>2. \A p \in Partitions : p \notin s.assigned => t.observed[p] = {} /\ t.readMin[p] = 0
    BY Zenon, <1>1, <1>2, <1>7, <2>1 DEF Fences, HoldsAssigned
  <2>3. \A p \in Partitions, m \in M : m[1] = p /\ m[3] = EpochOf(t, p) => t.readMin[p] # 0
    <3>1. \A p \in Partitions : t.readMin[p] = 0 => s.readMin[p] = 0
      BY Zenon, <1>1
    <3> QED
      BY Zenon, <1>2, <1>13, <3>1 DEF Fences
  <2> QED
    BY <1>2, <1>1, <2>2, <2>3 DEF Fences, HoldsAssigned
<1>15. Owns(C, t, after, own)
  <2> SUFFICES ASSUME NEW p \in own
               PROVE  C[p] <= after[p] /\ \A o \in t.observed[p] : o > C[p]
    BY ZenonT(60), <1>2, <1>1 DEF Owns
  <2>1. C[p] <= position[p] /\ \A o \in s.observed[p] : o > C[p]
    BY Zenon, <1>2 DEF Owns
  <2>2. C[p] \in Nat /\ position[p] \in Nat /\ after[p] \in Nat
    BY Zenon, <1>3, <1>4, <1>8
  <2>3. \A o \in s.observed[p] \cup os[p] : o \in Nat
    BY Zenon, <1>3, <1>4
  <2> QED
    BY <1>7, <1>10, <2>1, <2>2, <2>3
<1> QED
  BY Zenon, <1>11, <1>12, <1>14, <1>15 DEF Sound

-----------------------------------------------------------------------------
(* The steps.                                                              *)

\* A sound source and the reader that is about to use it, in the next state.
Ready(s, r, own) ==
    /\ log' \in Logs /\ end' \in [Partitions -> 0..LogEnd] /\ reset' \in Resets
    /\ reset' = "earliest" => skipped' = {}
    /\ committed' \in [Partitions -> 0..LogEnd]
    /\ metas' \subseteq Partitions \X Offsets \X (1..s.epoch)
    /\ decided' \subseteq Partitions \X Offsets /\ skipped' \subseteq Partitions \X Offsets
    /\ faults' \in Nat
    /\ \A p \in Partitions : Safe(log', Past', p, committed'[p])
    /\ s \in SourceType /\ r \in ReaderType /\ own \subseteq Partitions
    /\ s.consumer /\ (own = {} \/ own = s.assigned)
    /\ Sound(log', committed', Past', metas', s, r.position, own)
    /\ r.next # "poll"
    /\ r.next = "yield" => Continues(log', s, r.position, r.batch)

\* Nothing is assigned to the functions of a new reader or a new source.
LEMMA NewTypes ==
    /\ None \in [Partitions -> 0..LogEnd] /\ None \in [Partitions -> Nat]
    /\ Empty \in [Partitions -> SUBSET Offsets]
    /\ NewSource \in SourceType /\ NewReader \in ReaderType
<1>1. None \in [Partitions -> 0..LogEnd] /\ None \in [Partitions -> Nat]
  BY KafkaConstants DEF None
<1>2. Empty \in [Partitions -> SUBSET Offsets]
  BY Zenon DEF Empty
<1>3. NewSource \in SourceType
  BY Zenon, <1>1, <1>2 DEF NewSource, SourceType
<1>4. NewReader \in ReaderType
  BY Zenon, <1>1, <1>2 DEF NewReader, ReaderType
<1> QED
  BY Zenon, <1>1, <1>2, <1>3, <1>4

\* After the drain the batch is recorded, or the consumer is gone.
LEMMA AfterDrainInv ==
    ASSUME NEW s, NEW r, NEW own, Ready(s, r, own), AfterDrain(s, r, own)
    PROVE  Inv'
<1>1. CASE r.next = "yield"
  <2>1. Intake(s, r, r.batch) /\ owned' = own
    BY Zenon, <1>1 DEF AfterDrain
  <2> DEFINE os == r.batch
             after == Ended(r.position, os)
             epochs == [p \in Partitions |-> IF os[p] = {} THEN 0 ELSE EpochOf(s, p)]
             pc == IF os = Empty THEN "poll" ELSE "yield"
  <2>2. k' = Observed(s, os)
        /\ reader' = [r EXCEPT !.pc = pc, !.attempt = 0, !.taken = None, !.batch = os,
                               !.epochs = epochs, !.position = after]
    BY Zenon, <2>1 DEF Intake, Ended
  <2>3. os \in [Partitions -> SUBSET Offsets] /\ r.position \in [Partitions -> 0..LogEnd]
    BY Zenon DEF Ready, ReaderType
  <2>4. /\ k' \in SourceType /\ k'.consumer = s.consumer /\ k'.epoch = s.epoch
        /\ k'.assigned = s.assigned
        /\ \A p \in Partitions : os[p] # {} => k'.readMin[p] # 0
    <3>1. s \in SourceType
      BY Zenon DEF Ready
    <3> QED
      BY <2>2, <2>3, <3>1, ObservedFacts
  <2>5. after \in [Partitions -> 0..LogEnd]
    BY Zenon, <2>3, EndedType
  <2>6. Sound(log', committed', Past', metas', Observed(s, os), after, own)
    <3>1. /\ committed' \in [Partitions -> 0..LogEnd] /\ s \in SourceType /\ own \in SUBSET Partitions
          /\ Sound(log', committed', Past', metas', s, r.position, own)
          /\ Continues(log', s, r.position, os)
      BY Zenon, <1>1 DEF Ready
    <3> QED
      BY Zenon, <2>3, <3>1, ObservedSound
  <2>7. \A p \in Partitions : EpochOf(s, p) \in 1..s.epoch
    BY DEF Ready, Sound, Fences, HoldsAssigned, EpochOf, SourceType
  <2>8. epochs \in [Partitions -> Nat]
    BY <2>7 DEF Ready, SourceType
  <2>9. \A p \in Partitions : os[p] # {} => epochs[p] \in 1..s.epoch
    BY Zenon, <2>7
  <2>10. pc \in {"poll", "yield"} /\ (pc = "yield" => os # Empty)
    BY Zenon
  <2> HIDE DEF after, epochs, pc, os
  <2>11. reader' \in ReaderType
    BY Zenon, <2>2, <2>3, <2>5, <2>8, <2>10, NewTypes DEF Ready, ReaderType
  <2>12. /\ reader'.pc = pc /\ reader'.batch = os /\ reader'.epochs = epochs
        /\ reader'.position = after
    BY Zenon, <2>2 DEF Ready, ReaderType
  <2>13. TypeOK'
    BY Zenon, <2>1, <2>4, <2>11 DEF TypeOK, Ready
  <2>14. Live' /\ reader'.pc # "commit"
    BY Zenon, <2>10, <2>12 DEF Live
  <2>15. Recorded(k', reader'.batch, reader'.epochs) \/ reader'.pc # "yield"
    BY Zenon, <2>4, <2>9, <2>10, <2>12 DEF Recorded
  <2> QED
    BY Zenon, <2>1, <2>2, <2>4, <2>6, <2>12, <2>13, <2>14, <2>15 DEF Inv, Ready
<1>2. CASE r.next # "yield"
  <2>1. /\ k' = [s EXCEPT !.consumer = FALSE]
        /\ reader' = [NewReader EXCEPT !.pc = r.next, !.attempt = r.attempt]
        /\ owned' = {}
    BY Zenon, <1>2 DEF AfterDrain
  <2>2. r.next \in {"build", "failed", "closed"} /\ r.attempt \in Nat
    BY Zenon, <1>2 DEF Ready, ReaderType
  <2>3. k' \in SourceType /\ k'.consumer = FALSE /\ k'.epoch = s.epoch
    BY Zenon, <2>1 DEF Ready, SourceType
  <2>4. reader' \in ReaderType /\ reader'.pc = r.next
    BY Zenon, <2>1, <2>2, NewTypes DEF ReaderType, NewReader
  <2>5. TypeOK'
    BY Zenon, <2>1, <2>3, <2>4 DEF TypeOK, Ready
  <2>6. ~Live' /\ reader'.pc # "commit" /\ reader'.pc # "yield"
    BY Zenon, <2>2, <2>4 DEF Live
  <2> QED
    BY Zenon, <2>1, <2>3, <2>5, <2>6 DEF Inv, Ready
<1> QED
  BY Zenon, <1>1, <1>2

\* The drain captures what is pending, or has nothing to do.
LEMMA DrainInv ==
    ASSUME NEW s, NEW r, NEW own, Ready(s, r, own), Drain(s, r, own)
    PROVE  Inv'
<1>1. CASE s.pending = None
  <2>1. AfterDrain(s, r, own)
    BY Zenon, <1>1 DEF Drain
  <2> QED
    BY Zenon, <2>1, AfterDrainInv
<1>2. CASE s.pending # None
  <2> DEFINE epochs == [p \in Partitions |-> EpochOf(s, p)]
  <2>1. /\ k' = [s EXCEPT !.pending = None]
        /\ reader' = [r EXCEPT !.pc = "commit", !.taken = s.pending, !.epochs = epochs]
        /\ owned' = own
    BY Zenon, <1>2 DEF Drain
  <2>2. epochs \in [Partitions -> Nat]
    BY Zenon DEF Ready, SourceType, EpochOf
  <2> HIDE DEF epochs
  <2>3. k' \in SourceType
    <3>1. s \in SourceType /\ None \in [Partitions -> 0..LogEnd]
      BY Zenon, NewTypes DEF Ready
    <3> QED
      BY Zenon, <2>1, <3>1 DEF SourceType
  <2>4. /\ k'.pending = None /\ k'.consumer = s.consumer /\ k'.epoch = s.epoch
        /\ k'.assigned = s.assigned /\ k'.pepoch = s.pepoch /\ k'.completed = s.completed
        /\ k'.ooo = s.ooo /\ k'.tombstones = s.tombstones /\ k'.readMin = s.readMin
        /\ k'.observed = s.observed
    BY Zenon, <2>1 DEF Ready, SourceType
  <2>5. s.pending \in [Partitions -> 0..LogEnd]
    BY Zenon DEF Ready, SourceType
  <2>6. reader' \in ReaderType
    BY Zenon, <2>1, <2>2, <2>5 DEF Ready, ReaderType
  <2>7. /\ reader'.pc = "commit" /\ reader'.taken = s.pending
        /\ reader'.position = r.position /\ reader'.batch = r.batch /\ reader'.next = r.next
    BY Zenon, <2>1 DEF Ready, ReaderType
  <2>8. \A p \in Partitions : None[p] = 0 /\ Safe(log', Past', p, 0)
    BY DEF None, Safe, Offsets
  <2>9. /\ Decides(log', Past', s) /\ Covers(log', Past', s, r.position)
        /\ Fences(metas', s) /\ Owns(committed', s, r.position, own)
    BY Zenon DEF Ready, Sound
  <2>10. Decides(log', Past', k')
    BY Zenon, <2>4, <2>8, <2>9 DEF Decides
  <2>11. Covers(log', Past', k', r.position)
    BY Zenon, <2>4, <2>9 DEF Covers
  <2>12. Fences(metas', k')
    <3>1. \A p : EpochOf(k', p) = EpochOf(s, p)
      BY Zenon, <2>4 DEF EpochOf
    <3> QED
      BY ZenonT(60), <2>4, <2>8, <2>9, <3>1 DEF Fences, HoldsAssigned
  <2>13. own \subseteq Partitions
    BY Zenon DEF Ready
  <2>14. Owns(committed', k', r.position, own)
    BY Zenon, <2>4, <2>8, <2>9, <2>13 DEF Owns
  <2>15. Takes(log', committed', Past', k', s.pending, own)
    <3>1. \A p \in Partitions : /\ Safe(log', Past', p, s.pending[p])
                                /\ s.pending[p] # 0 => p \in s.assigned
      BY Zenon, <2>9 DEF Decides, Fences, HoldsAssigned
    <3> QED
      BY Zenon, <2>4, <2>8, <2>9, <3>1 DEF Takes, Owns
  <2>16. Draining(log', committed', Past', k', reader', owned')
    <3>1. Continues(log', s, r.position, r.batch) => Continues(log', k', r.position, r.batch)
      BY Zenon, <2>4 DEF Continues
    <3> QED
      BY Zenon, <2>1, <2>7, <2>15, <3>1 DEF Draining, Ready
  <2>17. TypeOK'
    BY Zenon, <2>1, <2>3, <2>4, <2>6 DEF TypeOK, Ready
  <2>18. Live'
    BY Zenon, <2>7 DEF Live
  <2> QED
    BY Zenon, <2>1, <2>4, <2>7, <2>10, <2>11, <2>12, <2>14, <2>16, <2>17, <2>18 DEF Inv, Ready, Sound
<1> QED
  BY Zenon, <1>1, <1>2

\* A new session holds nothing.
LEMMA BuildInv ==
    ASSUME Inv, Build
    PROVE  Inv'
<1>1. /\ k' = [NewSource EXCEPT !.consumer = TRUE, !.epoch = k.epoch + 1]
      /\ reader' = [reader EXCEPT !.pc = "poll", !.position = None]
      /\ UNCHANGED <<log, end, reset, committed, owned, metas, decided, skipped, faults>> /\ Past' = Past
      /\ reader.pc = "build"
  BY Zenon DEF Build, ResetSession, NewSource, Past
<1>2. TypeOK /\ owned = {} /\ k.epoch \in Nat /\ k.epoch + 1 \in Nat
      /\ \A p \in Partitions : Safe(log, Past, p, committed[p])
  BY <1>1 DEF Inv, Live, TypeOK, SourceType
<1>3. k' \in SourceType
  BY Zenon, <1>1, <1>2, NewTypes DEF SourceType, NewSource
<1>4. /\ k'.consumer = TRUE /\ k'.epoch = k.epoch + 1 /\ k'.pepoch = None /\ k'.assigned = {}
      /\ k'.completed = None /\ k'.ooo = Empty /\ k'.tombstones = Empty /\ k'.readMin = None
      /\ k'.observed = Empty /\ k'.pending = None
  BY Zenon, <1>1 DEF NewSource
<1>5. reader' \in ReaderType /\ reader'.pc = "poll" /\ reader'.position = None
  BY Zenon, <1>1, <1>2, NewTypes DEF ReaderType, TypeOK
<1>6. \A p \in Partitions : None[p] = 0 /\ Empty[p] = {}
  BY Zenon DEF None, Empty
<1>7. metas \subseteq Partitions \X Offsets \X (1..k.epoch)
  BY Zenon, <1>2 DEF TypeOK
<1>8. \A m \in metas : m[3] # k'.epoch /\ m[3] \in 1..k'.epoch
  BY <1>2, <1>4, <1>7
<1>9. TypeOK'
  <2>1. metas' \subseteq Partitions \X Offsets \X (1..k'.epoch)
    BY Zenon, <1>1, <1>7, <1>8
  <2> QED
    BY Zenon, <1>1, <1>2, <1>3, <1>5, <2>1 DEF TypeOK
<1>10. Decides(log', Past', k') /\ Covers(log', Past', k', reader'.position)
  BY <1>4, <1>5, <1>6 DEF Decides, Covers, Safe, Offsets
<1>11. Fences(metas', k')
  <2>1. \A p \in Partitions : EpochOf(k', p) = k'.epoch
    BY Zenon, <1>4, <1>6 DEF EpochOf
  <2>2. k'.epoch >= 1
    BY <1>2, <1>4
  <2> QED
    <3>1. HoldsAssigned(k')
      BY Zenon, <1>4, <1>6 DEF HoldsAssigned
    <3>2. \A p \in Partitions, m \in metas' : m[3] # EpochOf(k', p)
      BY Zenon, <1>1, <1>8, <2>1
    <3> QED
      BY Zenon, <2>2, <3>1, <3>2 DEF Fences
<1>12. Owns(committed', k', reader'.position, owned')
  BY Zenon, <1>1, <1>2 DEF Owns
<1> QED
  BY Zenon, <1>1, <1>2, <1>4, <1>5, <1>9, <1>10, <1>11, <1>12 DEF Inv, Sound, Live

\* A live source may be drained to be closed.
LEMMA ReadyToClose ==
    ASSUME Inv, Live, UNCHANGED <<log, end, reset, committed, metas, decided, skipped>>, Past' = Past, faults' \in Nat,
           NEW r \in ReaderType, r.position = reader.position,
           r.next \in {"build", "failed", "closed"}
    PROVE  Ready(k, r, owned)
<1>1. TypeOK /\ k.consumer = TRUE /\ (owned = {} \/ owned = k.assigned)
      /\ (reset = "earliest" => skipped = {})
      /\ Sound(log, committed, Past, metas, k, reader.position, owned)
      /\ \A p \in Partitions : Safe(log, Past, p, committed[p])
  BY Zenon DEF Inv, TypeOK, SourceType
<1> QED
  BY Zenon, <1>1 DEF Ready, TypeOK

\* A failed poll and close() drain, then the consumer is gone.
LEMMA CloseInv ==
    ASSUME Inv, PollFails \/ Close
    PROVE  Inv'
<1>1. reader \in ReaderType /\ Live /\ faults \in Nat
  BY Zenon DEF Inv, TypeOK, PollFails, Close, Live
<1>2. UNCHANGED <<log, end, reset, committed, metas, decided, skipped>> /\ Past' = Past /\ faults' \in Nat
  BY <1>1 DEF PollFails, Close, Fault, Past
<1>3. PICK r \in ReaderType : /\ r.position = reader.position
                              /\ r.next \in {"build", "failed", "closed"}
                              /\ Drain(k, r, owned)
  <2>1. CASE Close
    <3> DEFINE r == [reader EXCEPT !.next = "closed"]
    <3>1. r \in ReaderType /\ r.position = reader.position /\ r.next = "closed"
      BY Zenon, <1>1 DEF ReaderType
    <3>2. Drain(k, r, owned)
      BY Zenon, <2>1 DEF Close
    <3> HIDE DEF r
    <3> QED
      BY Zenon, <3>1, <3>2
  <2>2. CASE PollFails
    <3>1. PICK n \in {"build", "failed"} :
            Drain(k, [reader EXCEPT !.attempt = reader.attempt + 1, !.next = n], owned)
      BY Zenon, <2>2 DEF PollFails
    <3> DEFINE r == [reader EXCEPT !.attempt = reader.attempt + 1, !.next = n]
    <3>2. reader.attempt + 1 \in Nat
      BY <1>1 DEF ReaderType
    <3>3. r \in ReaderType /\ r.position = reader.position /\ r.next = n
      BY Zenon, <1>1, <3>2 DEF ReaderType
    <3> HIDE DEF r
    <3> QED
      BY Zenon, <3>1, <3>3 DEF r
  <2> QED
    BY Zenon, <2>1, <2>2
<1>4. Ready(k, r, owned)
  BY Zenon, <1>1, <1>2, <1>3, ReadyToClose
<1> QED
  BY Zenon, <1>3, <1>4, DrainInv

\* A poll: a rebalance or none, the batch, and the drain.
LEMMA PollInv ==
    ASSUME Inv, NEW ps \in SUBSET Partitions, NEW upto \in [Partitions -> 0..LogEnd], Poll(ps, upto)
    PROVE  Inv'
<1> DEFINE rebalance == ps # k.assigned \/ owned # k.assigned
<1>1. PICK s : s = IF rebalance THEN Assigned(Revoked(k, k.assigned), ps) ELSE k
  BY Zenon
<1>2. PICK from : from = IF rebalance THEN Resume(ps) ELSE reader.position
  BY Zenon
<1>3. PICK os : os = [p \in Partitions |-> {o \in Fetchable(p, from[p]) : p \in ps /\ o <= upto[p]}]
  BY Zenon
<1>4. PICK r : r = [reader EXCEPT !.position = from, !.next = "yield", !.batch = os]
  BY Zenon
<1>5. /\ Drain(s, r, ps) /\ reader.pc = "poll" /\ UNCHANGED <<log, end, reset, committed, metas, decided>>
      /\ skipped' = IF rebalance THEN skipped \cup LeftOut(ps) ELSE skipped
  BY Zenon, <1>1, <1>2, <1>3, <1>4 DEF Poll
<1>6. faults' \in Nat
  BY DEF Inv, TypeOK, Poll, Fault
<1>7. Live
  BY Zenon, <1>5 DEF Live
<1>8. /\ TypeOK /\ k.consumer = TRUE /\ (reset = "earliest" => skipped = {})
      /\ Sound(log, committed, Past, metas, k, reader.position, owned)
      /\ \A p \in Partitions : Safe(log, Past, p, committed[p])
  BY Zenon, <1>7 DEF Inv, TypeOK, SourceType
<1>9. /\ s \in SourceType /\ s.assigned = ps /\ s.consumer = TRUE
      /\ metas \subseteq Partitions \X Offsets \X (1..s.epoch)
      /\ from \in [Partitions -> 0..LogEnd]
      /\ Sound(log, committed, Past', metas, s, from, ps)
      /\ \A p \in Partitions : Safe(log, Past', p, committed[p])
      /\ skipped' \subseteq Partitions \X Offsets
      /\ reset = "earliest" => skipped' = {}
  <2>1. CASE rebalance
    <3>1. s = Assigned(Revoked(k, k.assigned), ps) /\ from = Resume(ps)
          /\ skipped' = skipped \cup LeftOut(ps)
      BY Zenon, <1>1, <1>2, <1>5, <2>1
    <3>2. k \in SourceType /\ committed \in [Partitions -> 0..LogEnd]
          /\ metas \in SUBSET (Partitions \X Offsets \X (1..k.epoch))
          /\ Fences(metas, k) /\ HoldsAssigned(k) /\ Decides(log, Past, k)
      BY Zenon, <1>8 DEF TypeOK, Sound, Fences
    <3>3. PICK D : D = Past' /\ D = Past \cup LeftOut(ps)
      BY Zenon, <1>5, <3>1 DEF Past
    <3>4. /\ LeftOut(ps) \subseteq Partitions \X Offsets
          /\ reset = "earliest" => LeftOut(ps) = {}
      BY Zenon DEF LeftOut, ResetToEnd
    <3>5. Past \subseteq D
      BY Zenon, <3>3
    <3>6. \A p \in Partitions : Safe(log, D, p, committed[p])
      BY Zenon, <1>8, <3>5, DecidedGrows
    <3>7. Decides(log, D, k)
      <4>1. \A p \in Partitions : Safe(log, D, p, k.pending[p])
        BY Zenon, <3>2, <3>5, DecidedGrows DEF Decides
      <4> QED
        BY Zenon, <3>2, <3>5, <4>1 DEF Decides
    <3>8. from \in [Partitions -> 0..LogEnd]
      BY Zenon, <1>8, <3>1 DEF Resume, TypeOK
    <3>9. ASSUME NEW p \in Partitions
          PROVE  Safe(log, D, p, from[p]) /\ committed[p] <= from[p]
      <4>1. CASE p \in ps /\ ResetToEnd(p)
        <5>1. from[p] = end[p] /\ committed[p] = 0
          BY Zenon, <3>1, <4>1 DEF Resume, ResetToEnd
        <5>2. \A o \in Offsets : o <= end[p] => <<p, o>> \in D
          BY <3>3, <4>1 DEF LeftOut
        <5> QED
          BY <3>8, <5>1, <5>2 DEF Safe
      <4>2. CASE ~(p \in ps /\ ResetToEnd(p))
        <5>1. from[p] = committed[p] /\ committed[p] \in 0..LogEnd
          BY Zenon, <3>1, <3>2, <4>2 DEF Resume
        <5> QED
          BY <3>6, <5>1
      <4> QED
        BY Zenon, <4>1, <4>2
    <3>10. Sound(log, committed, D, metas, s, from, ps)
      BY Zenon, <3>1, <3>2, <3>7, <3>8, <3>9, RebalanceSound
    <3>11. s \in SourceType /\ s.assigned = ps /\ s.consumer = k.consumer /\ s.epoch = k.epoch + 2
      <4>1. Rebalanced(k, ps, s)
        BY Zenon, <3>1, <3>2, RebalanceFacts
      <4> QED
        BY Zenon, <4>1 DEF Rebalanced
    <3>12. 1..k.epoch \subseteq 1..s.epoch
      BY <3>2, <3>11 DEF SourceType
    <3>13. skipped' \subseteq Partitions \X Offsets /\ (reset = "earliest" => skipped' = {})
      BY Zenon, <1>8, <3>1, <3>4 DEF TypeOK
    <3> QED
      BY Zenon, <1>8, <3>2, <3>3, <3>6, <3>8, <3>10, <3>11, <3>12, <3>13
  <2>2. CASE ~rebalance
    <3>1. s = k /\ from = reader.position /\ skipped' = skipped /\ Past' = Past
          /\ ps = k.assigned /\ owned = ps
      BY Zenon, <1>1, <1>2, <1>5, <2>2 DEF Past
    <3> QED
      BY Zenon, <1>8, <3>1 DEF TypeOK, ReaderType
  <2> QED
    BY Zenon, <2>1, <2>2
<1>10. os \in [Partitions -> SUBSET Offsets]
  BY Zenon, <1>3 DEF Fetchable
<1>11. Continues(log, s, from, os)
  <2> SUFFICES ASSUME NEW p \in Partitions, NEW x \in os[p]
               PROVE  /\ p \in s.assigned /\ from[p] < x
                      /\ \A o \in Offsets : from[p] < o /\ o < x /\ log[p][o] = "value" => o \in os[p]
    BY Zenon DEF Continues
  <2>1. p \in ps /\ x \in Offsets /\ from[p] < x /\ x <= end[p] /\ x <= upto[p]
    BY Zenon, <1>3 DEF Fetchable
  <2>2. from[p] \in Nat /\ upto[p] \in Nat /\ x \in Nat /\ end[p] \in Nat
    BY <1>8, <1>9, <2>1, KafkaConstants DEF Offsets, TypeOK
  <2>3. ASSUME NEW o \in Offsets, from[p] < o, o < x, log[p][o] = "value" PROVE o \in os[p]
    <3>1. o \in Nat /\ from[p] < o /\ o <= end[p] /\ o <= upto[p]
      BY <2>1, <2>2, <2>3 DEF Offsets
    <3> QED
      BY Zenon, <1>3, <2>1, <2>3, <3>1 DEF Fetchable
  <2> QED
    BY Zenon, <1>9, <2>1, <2>2, <2>3
<1> HIDE DEF rebalance
<1>12. /\ r \in ReaderType /\ r.position = from /\ r.next = "yield" /\ r.batch = os
  BY Zenon, <1>4, <1>8, <1>9, <1>10 DEF TypeOK, ReaderType
<1>13. Ready(s, r, ps)
  BY Zenon, <1>5, <1>6, <1>8, <1>9, <1>11, <1>12 DEF Ready, TypeOK
<1> QED
  BY Zenon, <1>5, <1>13, DrainInv

\* The offsets of a commit go to owned partitions only, and not backwards.
LEMMA AppliedFacts ==
    ASSUME Inv, reader.pc = "commit", Taken \subseteq owned
    PROVE  /\ Applied \in [Partitions -> 0..LogEnd]
           /\ \A p \in Partitions : /\ Safe(log, Past, p, Applied[p])
                                    /\ Applied[p] >= committed[p]
           /\ Owns(Applied, k, reader.position, owned)
<1>1. /\ TypeOK /\ Takes(log, committed, Past, k, reader.taken, owned)
      /\ Covers(log, Past, k, reader.position) /\ Owns(committed, k, reader.position, owned)
      /\ \A p \in Partitions : Safe(log, Past, p, committed[p])
  BY Zenon DEF Inv, Live, Draining, Sound
<1>2. \A p \in Partitions : /\ reader.taken[p] \in 0..LogEnd /\ committed[p] \in 0..LogEnd
                            /\ k.completed[p] \in 0..LogEnd /\ k.pending[p] \in 0..LogEnd
                            /\ reader.position[p] \in 0..LogEnd /\ k.observed[p] \in SUBSET Offsets
  BY Zenon, <1>1 DEF TypeOK, SourceType, ReaderType
<1>3. Offsets \subseteq Nat /\ 0..LogEnd \subseteq Nat
  BY DEF Offsets
<1>4. \A p \in Partitions : Applied[p] = IF reader.taken[p] > 0 THEN reader.taken[p] ELSE committed[p]
  BY Zenon DEF Applied, Taken
<1>5. Applied \in [Partitions -> 0..LogEnd]
  BY Zenon, <1>2 DEF Applied
<1>6. ASSUME NEW p \in Partitions
      PROVE  Safe(log, Past, p, Applied[p]) /\ Applied[p] >= committed[p]
  <2>1. CASE reader.taken[p] > 0
    <3>1. p \in owned
      BY Zenon, <2>1 DEF Taken
    <3>2. committed[p] <= reader.taken[p] /\ Safe(log, Past, p, reader.taken[p])
      BY <1>1, <1>2, <1>3, <2>1, <3>1 DEF Takes
    <3> QED
      BY Zenon, <1>2, <1>3, <1>4, <2>1, <3>2
  <2>2. CASE ~(reader.taken[p] > 0)
    BY <1>1, <1>2, <1>3, <1>4, <2>2
  <2> QED
    BY Zenon, <2>1, <2>2
<1>7. Owns(Applied, k, reader.position, owned)
  <2> SUFFICES ASSUME NEW p \in owned
               PROVE  /\ Applied[p] <= reader.position[p]
                      /\ \A o \in k.observed[p] : o > Applied[p]
                      /\ k.pending[p] # 0 => Applied[p] <= k.pending[p] /\ k.pending[p] <= k.completed[p]
    BY Zenon DEF Owns
  <2>1. p \in Partitions
    BY Zenon, <1>1 DEF TypeOK
  <2>2. CASE reader.taken[p] > 0
    <3>1. /\ reader.taken[p] <= k.completed[p]
          /\ k.pending[p] # 0 => reader.taken[p] <= k.pending[p]
      BY <1>1, <1>2, <1>3, <2>1, <2>2 DEF Takes
    <3>2. /\ k.completed[p] <= reader.position[p]
          /\ \A o \in k.observed[p] : k.completed[p] < o
      BY Zenon, <1>1, <2>1 DEF Covers
    <3>3. k.pending[p] # 0 => k.pending[p] <= k.completed[p]
      BY Zenon, <1>1 DEF Owns
    <3>4. Applied[p] = reader.taken[p]
      BY Zenon, <1>4, <2>1, <2>2
    <3>5. /\ reader.taken[p] \in Nat /\ k.completed[p] \in Nat /\ reader.position[p] \in Nat
          /\ \A o \in k.observed[p] : o \in Nat
      BY Zenon, <1>2, <1>3, <2>1
    <3>6. \A o \in k.observed[p] : o > reader.taken[p]
      BY <3>1, <3>2, <3>5
    <3> QED
      BY <3>1, <3>2, <3>3, <3>4, <3>5, <3>6
  <2>3. CASE ~(reader.taken[p] > 0)
    BY Zenon, <1>1, <1>4, <2>1, <2>3 DEF Owns
  <2> QED
    BY Zenon, <2>2, <2>3
<1> QED
  BY Zenon, <1>5, <1>6, <1>7

\* A commit that succeeds.
LEMMA CommitOkInv ==
    ASSUME Inv, CommitOk
    PROVE  Inv'
<1>1. /\ reader.pc = "commit" /\ Taken \subseteq owned /\ committed' = Applied
      /\ AfterDrain(k, reader, owned) /\ UNCHANGED <<log, end, reset, metas, decided, skipped, faults>> /\ Past' = Past
  BY Zenon DEF CommitOk, Past
<1>2. /\ TypeOK /\ k.consumer = TRUE /\ (owned = {} \/ owned = k.assigned)
      /\ (reset = "earliest" => skipped = {})
      /\ Sound(log, committed, Past, metas, k, reader.position, owned)
      /\ Draining(log, committed, Past, k, reader, owned)
  BY Zenon, <1>1 DEF Inv, Live, TypeOK, SourceType
<1>3. /\ Applied \in [Partitions -> 0..LogEnd]
      /\ \A p \in Partitions : Safe(log, Past, p, Applied[p])
      /\ Owns(Applied, k, reader.position, owned)
  BY Zenon, <1>1, AppliedFacts
<1>4. PICK C : C = Applied /\ C = committed'
  BY Zenon, <1>1
<1>5. Sound(log, C, Past, metas, k, reader.position, owned)
  BY Zenon, <1>2, <1>3, <1>4 DEF Sound
<1>6. Ready(k, reader, owned)
  BY Zenon, <1>1, <1>2, <1>3, <1>4, <1>5 DEF Ready, TypeOK, Draining
<1> QED
  BY Zenon, <1>1, <1>6, AfterDrainInv

\* A commit that fails gives its offsets back.
LEMMA CommitFailsInv ==
    ASSUME Inv, NEW applied \in BOOLEAN, CommitFails(applied)
    PROVE  Inv'
<1>1. PICK C : C = committed'
  BY Zenon
<1>2. /\ reader.pc = "commit" /\ UNCHANGED <<log, end, reset, metas, decided, skipped>> /\ Past' = Past /\ faults' \in Nat
      /\ AfterDrain(Restored(k), reader, owned)
      /\ C = committed \/ (Taken \subseteq owned /\ C = Applied)
  <2>1. faults' \in Nat
    BY DEF Inv, TypeOK, CommitFails, Fault
  <2> QED
    BY Zenon, <1>1, <2>1 DEF CommitFails, Past
<1>3. /\ TypeOK /\ k.consumer = TRUE /\ (owned = {} \/ owned = k.assigned)
      /\ (reset = "earliest" => skipped = {})
      /\ Sound(log, committed, Past, metas, k, reader.position, owned)
      /\ Draining(log, committed, Past, k, reader, owned)
      /\ \A p \in Partitions : Safe(log, Past, p, committed[p])
  BY Zenon, <1>2 DEF Inv, Live, TypeOK, SourceType
<1>4. /\ C \in [Partitions -> 0..LogEnd]
      /\ \A p \in Partitions : Safe(log, Past, p, C[p])
      /\ Owns(C, k, reader.position, owned)
  BY Zenon, <1>2, <1>3, AppliedFacts DEF TypeOK, Sound
<1> DEFINE given(p) == p \in Taken /\ reader.epochs[p] = EpochOf(k, p)
           pending == [p \in Partitions |-> IF given(p) THEN Larger(k.pending[p], reader.taken[p])
                                            ELSE k.pending[p]]
<1>5. PICK s : s = Restored(k)
  BY Zenon
<1>6. s = [k EXCEPT !.pending = pending]
  BY Zenon, <1>5 DEF Restored
<1>7. \A p \in Partitions : /\ k.pending[p] \in 0..LogEnd /\ reader.taken[p] \in 0..LogEnd
                            /\ k.completed[p] \in 0..LogEnd /\ C[p] \in 0..LogEnd
  BY Zenon, <1>3, <1>4 DEF TypeOK, SourceType, ReaderType
<1>8. ASSUME NEW p \in Partitions
      PROVE  pending[p] \in {k.pending[p], reader.taken[p]} /\ pending[p] \in 0..LogEnd
             /\ (pending[p] # k.pending[p] => reader.taken[p] # 0 /\ pending[p] = reader.taken[p])
  BY <1>7, KafkaConstants DEF Larger, Taken
<1>9. pending \in [Partitions -> 0..LogEnd]
  BY Zenon, <1>8
<1> HIDE DEF pending
<1>10. s \in SourceType
  BY Zenon, <1>3, <1>6, <1>9 DEF TypeOK, SourceType
<1>11. /\ s.pending = pending /\ s.consumer = k.consumer /\ s.epoch = k.epoch
       /\ s.pepoch = k.pepoch /\ s.assigned = k.assigned /\ s.completed = k.completed
       /\ s.ooo = k.ooo /\ s.tombstones = k.tombstones /\ s.readMin = k.readMin
       /\ s.observed = k.observed
  BY Zenon, <1>3, <1>6 DEF TypeOK, SourceType
<1>12. /\ Decides(log, Past, k) /\ Covers(log, Past, k, reader.position) /\ Fences(metas, k)
       /\ Takes(log, committed, Past, k, reader.taken, owned)
  BY Zenon, <1>3 DEF Sound, Draining
<1>13. Decides(log, Past, s)
  <2>1. \A p \in Partitions : Safe(log, Past, p, pending[p])
    BY Zenon, <1>8, <1>12 DEF Decides, Takes
  <2> QED
    BY Zenon, <1>11, <1>12, <2>1 DEF Decides
<1>14. Covers(log, Past, s, reader.position)
  BY Zenon, <1>11, <1>12 DEF Covers
<1>15. Fences(metas, s)
  <2>1. \A p \in Partitions : EpochOf(s, p) = EpochOf(k, p)
    BY Zenon, <1>11 DEF EpochOf
  <2>2. \A p \in Partitions : p \notin k.assigned => pending[p] = 0
    BY Zenon, <1>8, <1>12 DEF Fences, HoldsAssigned, Takes
  <2>3. HoldsAssigned(s)
    BY ZenonT(60), <1>11, <1>12, <2>2 DEF Fences, HoldsAssigned
  <2> QED
    BY Zenon, <1>11, <1>12, <2>1, <2>3 DEF Fences
<1>16. Owns(C, s, reader.position, owned)
  <2>1. ASSUME NEW p \in owned, pending[p] # 0
        PROVE  C[p] <= pending[p] /\ pending[p] <= k.completed[p]
    <3>1. p \in Partitions
      BY Zenon, <1>3 DEF TypeOK
    <3>2. CASE pending[p] = k.pending[p]
      BY Zenon, <1>4, <2>1, <3>2 DEF Owns
    <3>3. CASE pending[p] # k.pending[p]
      <4>1. pending[p] = reader.taken[p] /\ reader.taken[p] # 0
        BY Zenon, <1>8, <3>1, <3>3
      <4>2. committed[p] <= reader.taken[p] /\ reader.taken[p] <= k.completed[p]
        BY Zenon, <1>12, <3>1, <4>1 DEF Takes
      <4>3. C[p] = committed[p] \/ C[p] = reader.taken[p]
        BY Zenon, <1>2, <3>1 DEF Applied
      <4> QED
        BY <1>7, <3>1, <4>1, <4>2, <4>3
    <3> QED
      BY Zenon, <3>2, <3>3
  <2> QED
    BY Zenon, <1>4, <1>11, <2>1 DEF Owns
<1>17. Sound(log, C, Past, metas, s, reader.position, owned)
  BY Zenon, <1>13, <1>14, <1>15, <1>16 DEF Sound
<1>18. Continues(log, k, reader.position, reader.batch) => Continues(log, s, reader.position, reader.batch)
  BY Zenon, <1>11 DEF Continues
<1>19. Ready(s, reader, owned)
  BY Zenon, <1>1, <1>2, <1>3, <1>4, <1>10, <1>11, <1>17, <1>18 DEF Ready, TypeOK, Draining
<1> QED
  BY Zenon, <1>2, <1>5, <1>19, AfterDrainInv

\* The next record is one of the batch, and the rest of the batch remains.
LEMMA PoppedFacts ==
    ASSUME Inv, reader.pc = "yield"
    PROVE  /\ NextPartition \in Partitions /\ NextOffset \in reader.batch[NextPartition]
           /\ NextOffset \in Offsets
           /\ Popped \in ReaderType /\ Popped.pc \in {"poll", "yield"}
           /\ Popped.pc = "yield" => Popped.batch # Empty
           /\ \A p \in Partitions : Popped.batch[p] \subseteq reader.batch[p]
           /\ Popped.epochs = reader.epochs /\ Popped.position = reader.position
<1>1. reader \in ReaderType /\ reader.batch # Empty /\ reader.batch \in [Partitions -> SUBSET Offsets]
  BY Zenon DEF Inv, TypeOK, Recorded, ReaderType
<1>2. PICK q \in Partitions : reader.batch[q] # {}
  BY Zenon, <1>1 DEF Empty
<1>3. NextPartition \in Partitions /\ reader.batch[NextPartition] # {}
  <2> DEFINE S == {p \in Partitions : reader.batch[p] # {}}
  <2>1. S \in SUBSET Nat /\ S # {}
    BY Zenon, <1>2, KafkaConstants
  <2>2. Min(S) \in S
    <3> HIDE DEF S
    <3> QED
      BY Zenon, <2>1, MinFacts
  <2> QED
    BY Zenon, <2>2 DEF NextPartition
<1>4. PICK n \in Partitions : n = NextPartition /\ reader.batch[n] # {}
  BY Zenon, <1>3
<1>5. NextOffset \in reader.batch[n]
  <2>1. reader.batch[n] \in SUBSET Nat
    BY <1>1 DEF Offsets
  <2>2. Min(reader.batch[n]) \in reader.batch[n]
    BY Zenon, <1>4, <2>1, MinFacts
  <2> QED
    BY Zenon, <1>4, <2>2 DEF NextOffset
<1>6. PICK o \in Offsets : o = NextOffset
  BY Zenon, <1>1, <1>5
<1> DEFINE rest == [reader.batch EXCEPT ![n] = reader.batch[n] \ {o}]
           pc == IF rest = Empty THEN "poll" ELSE "yield"
<1>7. Popped = [reader EXCEPT !.batch = rest, !.pc = pc]
  BY Zenon, <1>4, <1>6 DEF Popped
<1>8. rest \in [Partitions -> SUBSET Offsets] /\ \A p \in Partitions : rest[p] \subseteq reader.batch[p]
  BY Zenon, <1>1
<1>9. pc \in {"poll", "yield"} /\ (pc = "yield" => rest # Empty)
  BY Zenon
<1> HIDE DEF rest, pc
<1>10. Popped \in ReaderType
  BY Zenon, <1>1, <1>7, <1>8, <1>9 DEF ReaderType
<1>11. /\ Popped.pc = pc /\ Popped.batch = rest /\ Popped.epochs = reader.epochs
       /\ Popped.position = reader.position
  BY Zenon, <1>1, <1>7 DEF ReaderType
<1> QED
  BY Zenon, <1>1, <1>4, <1>5, <1>6, <1>8, <1>9, <1>10, <1>11

\* A payload is yielded under the epoch it was recorded under.
LEMMA YieldInv ==
    ASSUME Inv, Yield
    PROVE  Inv'
<1>1. reader.pc = "yield" /\ UNCHANGED <<log, end, reset, committed, owned, k, decided, skipped, faults>> /\ Past' = Past
  BY Zenon DEF Yield, Past
<1>2. PICK r : r = Popped /\ r = reader'
  BY Zenon DEF Yield
<1>3. PICK p \in Partitions, o \in Offsets :
        /\ p = NextPartition /\ o = NextOffset /\ reader.batch[p] # {}
  BY Zenon, <1>1, PoppedFacts
<1>4. metas' = metas \cup {<<p, o, reader.epochs[p]>>}
  BY Zenon, <1>3 DEF Yield
<1>5. /\ r \in ReaderType /\ r.pc \in {"poll", "yield"} /\ (r.pc = "yield" => r.batch # Empty)
      /\ \A q \in Partitions : r.batch[q] \subseteq reader.batch[q]
      /\ r.epochs = reader.epochs /\ r.position = reader.position
  BY Zenon, <1>1, <1>2, PoppedFacts
<1>6. Live /\ Recorded(k, reader.batch, reader.epochs) /\ TypeOK /\ k.consumer = TRUE
      /\ (owned = {} \/ owned = k.assigned)
      /\ Sound(log, committed, Past, metas, k, reader.position, owned)
  BY Zenon, <1>1 DEF Inv, Live, TypeOK, SourceType
<1>7. k.readMin[p] # 0 /\ reader.epochs[p] \in 1..k.epoch
  BY Zenon, <1>3, <1>6 DEF Recorded
<1>8. metas' \subseteq Partitions \X Offsets \X (1..k.epoch)
  BY <1>4, <1>6, <1>7 DEF TypeOK
<1>9. TypeOK'
  BY Zenon, <1>1, <1>2, <1>5, <1>6, <1>8 DEF TypeOK
<1>10. Fences(metas', k)
  <2>1. Fences(metas, k)
    BY Zenon, <1>6 DEF Sound
  <2>2. ASSUME NEW q \in Partitions, NEW m \in metas', m[1] = q, m[3] = EpochOf(k, q)
        PROVE  k.readMin[q] # 0
    <3>1. CASE m \in metas
      BY Zenon, <2>1, <2>2, <3>1 DEF Fences
    <3>2. CASE m = <<p, o, reader.epochs[p]>>
      BY Zenon, <1>7, <2>2, <3>2
    <3> QED
      BY Zenon, <1>4, <3>1, <3>2
  <2> QED
    BY Zenon, <2>1, <2>2 DEF Fences
<1>11. Sound(log', committed', Past', metas', k', reader'.position, owned')
  BY Zenon, <1>1, <1>2, <1>5, <1>6, <1>10 DEF Sound
<1>12. reader'.pc = "yield" => Recorded(k', reader'.batch, reader'.epochs)
  <2>1. \A q \in Partitions : reader'.batch[q] # {} => reader.batch[q] # {}
    BY Zenon, <1>2, <1>5
  <2> QED
    BY Zenon, <1>1, <1>2, <1>5, <1>6, <2>1 DEF Recorded
<1>13. Live' /\ reader'.pc # "commit"
  BY Zenon, <1>2, <1>5 DEF Live
<1>14. \A q \in Partitions : Safe(log', Past', q, committed'[q])
  BY Zenon, <1>1 DEF Inv
<1> QED
  BY Zenon, <1>1, <1>6, <1>9, <1>11, <1>12, <1>13, <1>14 DEF Inv

\* An offset of p marked as acknowledged, or as a tombstone.
Marked(s, p, o, kind) ==
    IF kind = "ack" THEN [s EXCEPT !.ooo[p] = @ \cup {o}] ELSE [s EXCEPT !.tombstones[p] = @ \cup {o}]

\* A mark changes nothing else.
LEMMA MarkFacts ==
    ASSUME NEW s \in SourceType, NEW p \in Partitions, NEW o \in Offsets, NEW kind \in {"ack", "tombstone"},
           NEW a, a = Marked(s, p, o, kind)
    PROVE  /\ a \in SourceType
           /\ a.consumer = s.consumer /\ a.epoch = s.epoch /\ a.pepoch = s.pepoch
           /\ a.assigned = s.assigned /\ a.readMin = s.readMin /\ a.completed = s.completed
           /\ a.observed = s.observed /\ a.pending = s.pending
           /\ \A q \in Partitions : a.ooo[q] \subseteq s.ooo[q] \cup (IF kind = "ack" /\ q = p THEN {o} ELSE {})
           /\ \A q \in Partitions :
                 a.tombstones[q] \subseteq s.tombstones[q] \cup (IF kind # "ack" /\ q = p THEN {o} ELSE {})
<1> DEFINE ooo == [s.ooo EXCEPT ![p] = @ \cup {o}]
           tombstones == [s.tombstones EXCEPT ![p] = @ \cup {o}]
<1>1. /\ ooo \in [Partitions -> SUBSET Offsets] /\ tombstones \in [Partitions -> SUBSET Offsets]
      /\ \A q \in Partitions : ooo[q] \subseteq s.ooo[q] \cup (IF q = p THEN {o} ELSE {})
      /\ \A q \in Partitions : tombstones[q] \subseteq s.tombstones[q] \cup (IF q = p THEN {o} ELSE {})
  <2>1. s.ooo[p] \cup {o} \in SUBSET Offsets /\ s.tombstones[p] \cup {o} \in SUBSET Offsets
    BY Zenon DEF SourceType
  <2> QED
    BY Zenon, <2>1 DEF SourceType
<1>2. \/ kind = "ack" /\ a = [s EXCEPT !.ooo = ooo]
      \/ kind # "ack" /\ a = [s EXCEPT !.tombstones = tombstones]
  <2>1. CASE kind = "ack"
    <3>1. a = [s EXCEPT !.ooo[p] = @ \cup {o}]
      BY Zenon, <2>1 DEF Marked
    <3> QED
      BY Zenon, <2>1, <3>1 DEF SourceType
  <2>2. CASE kind # "ack"
    <3>1. a = [s EXCEPT !.tombstones[p] = @ \cup {o}]
      BY Zenon, <2>2 DEF Marked
    <3> QED
      BY Zenon, <2>2, <3>1 DEF SourceType
  <2> QED
    BY Zenon, <2>1, <2>2
<1> HIDE DEF ooo, tombstones
<1>3. a \in SourceType
  BY ZenonT(60), <1>1, <1>2 DEF SourceType
<1>4. /\ a.consumer = s.consumer /\ a.epoch = s.epoch /\ a.pepoch = s.pepoch
      /\ a.assigned = s.assigned /\ a.readMin = s.readMin /\ a.completed = s.completed
      /\ a.observed = s.observed /\ a.pending = s.pending
      /\ a.ooo = s.ooo \/ (a.ooo = ooo /\ kind = "ack")
      /\ a.tombstones = s.tombstones \/ (a.tombstones = tombstones /\ kind # "ack")
  BY Zenon, <1>2 DEF SourceType
<1> QED
  BY Zenon, <1>1, <1>3, <1>4

\* The sweep of a mark leaves the assignment alone.
LEMMA SweepFacts ==
    ASSUME NEW s \in SourceType, NEW p \in Partitions, NEW o \in Offsets, NEW kind \in {"ack", "tombstone"},
           NEW t, t = Advance(Marked(s, p, o, kind), p)
    PROVE  /\ t \in SourceType /\ t.consumer = s.consumer /\ t.assigned = s.assigned
           /\ t.epoch = s.epoch /\ t.readMin = s.readMin
<1>1. PICK a : a = Marked(s, p, o, kind)
  BY Zenon
<1>2. /\ a \in SourceType /\ a.consumer = s.consumer /\ a.assigned = s.assigned
      /\ a.epoch = s.epoch /\ a.readMin = s.readMin
  BY <1>1, MarkFacts
<1> QED
  BY <1>1, <1>2, AdvanceFacts

\* A decided offset or a tombstone may be marked.
LEMMA MarkSound ==
    ASSUME NEW L, NEW C \in [Partitions -> 0..LogEnd], NEW D, NEW M,
           NEW s \in SourceType, NEW p \in Partitions, NEW o \in Offsets,
           NEW r \in ReaderType, NEW own \in SUBSET Partitions,
           Sound(L, C, D, M, s, r.position, own),
           NEW kind \in {"ack", "tombstone"}, IF kind = "ack" THEN <<p, o>> \in D ELSE L[p][o] # "value"
    PROVE  Sound(L, C, D, M, Marked(s, p, o, kind), r.position, own)
<1>1. PICK x : x = r.position /\ x \in [Partitions -> 0..LogEnd]
  BY Zenon DEF ReaderType
<1>2. Sound(L, C, D, M, s, x, own)
  BY Zenon, <1>1
<1>a. PICK a : a = Marked(s, p, o, kind)
  BY Zenon
<1>3. /\ a \in SourceType
      /\ a.consumer = s.consumer /\ a.epoch = s.epoch /\ a.pepoch = s.pepoch
      /\ a.assigned = s.assigned /\ a.readMin = s.readMin /\ a.completed = s.completed
      /\ a.observed = s.observed /\ a.pending = s.pending
      /\ \A q \in Partitions : a.ooo[q] \subseteq s.ooo[q] \cup (IF kind = "ack" /\ q = p THEN {o} ELSE {})
      /\ \A q \in Partitions :
            a.tombstones[q] \subseteq s.tombstones[q] \cup (IF kind # "ack" /\ q = p THEN {o} ELSE {})
  BY SMTT(60), <1>a, MarkFacts
<1>4. Decides(L, D, a)
  <2>1. Decides(L, D, s)
    BY Zenon, <1>2 DEF Sound
  <2> QED
    BY Zenon, <1>3, <2>1 DEF Decides
<1>5. Covers(L, D, a, x) /\ Owns(C, a, x, own)
  BY Zenon, <1>2, <1>3 DEF Sound, Covers, Owns
<1>6. Fences(M, a)
  BY SMTT(30), <1>2, <1>3 DEF Sound, Fences, HoldsAssigned, EpochOf
<1>7. Sound(L, C, D, M, a, x, own)
  BY Zenon, <1>4, <1>5, <1>6 DEF Sound
<1> QED
  BY Zenon, <1>1, <1>7, <1>a

\* A mark may be swept.
LEMMA SweepSound ==
    ASSUME NEW L, NEW C \in [Partitions -> 0..LogEnd], NEW D, NEW M,
           NEW s \in SourceType, NEW p \in Partitions, NEW o \in Offsets,
           NEW r \in ReaderType, NEW own \in SUBSET Partitions,
           Sound(L, C, D, M, s, r.position, own),
           NEW kind \in {"ack", "tombstone"}, IF kind = "ack" THEN <<p, o>> \in D ELSE L[p][o] # "value",
           NEW t, t = Advance(Marked(s, p, o, kind), p)
    PROVE  Sound(L, C, D, M, t, r.position, own)
<1>1. PICK x : x = r.position /\ x \in [Partitions -> 0..LogEnd]
  BY Zenon DEF ReaderType
<1>2. PICK a : a = Marked(s, p, o, kind)
  BY Zenon
<1>3. a \in SourceType
  BY Zenon, <1>2, MarkFacts
<1>4. Sound(L, C, D, M, a, x, own)
  BY Zenon, <1>1, <1>2, MarkSound
<1>5. Sound(L, C, D, M, t, x, own)
  BY Zenon, <1>1, <1>2, <1>3, <1>4, AdvanceSound
<1> QED
  BY Zenon, <1>1, <1>5

\* So may it while a commit is in progress.
LEMMA SweepDraining ==
    ASSUME NEW L, NEW C \in [Partitions -> 0..LogEnd], NEW D, NEW M,
           NEW s \in SourceType, NEW p \in Partitions, NEW o \in Offsets,
           NEW r \in ReaderType, NEW own \in SUBSET Partitions,
           Sound(L, C, D, M, s, r.position, own), Draining(L, C, D, s, r, own),
           NEW kind \in {"ack", "tombstone"}, IF kind = "ack" THEN <<p, o>> \in D ELSE L[p][o] # "value",
           NEW t, t = Advance(Marked(s, p, o, kind), p)
    PROVE  Draining(L, C, D, t, r, own)
<1>1. PICK a : a = Marked(s, p, o, kind)
  BY Zenon
<1>2. /\ a \in SourceType /\ a.assigned = s.assigned /\ a.completed = s.completed
      /\ a.pending = s.pending
  BY <1>1, MarkFacts
<1>3. Sound(L, C, D, M, a, r.position, own)
  BY Zenon, <1>1, MarkSound
<1>4. Draining(L, C, D, a, r, own)
  BY Zenon, <1>2 DEF Draining, Takes, Continues
<1> QED
  BY Zenon, <1>1, <1>2, <1>3, <1>4, AdvanceDraining

\* A tombstone is swept at intake.
LEMMA SkipInv ==
    ASSUME Inv, SkipTombstone
    PROVE  Inv'
<1>1. reader.pc = "yield" /\ UNCHANGED <<log, end, reset, committed, owned, metas, decided, skipped, faults>> /\ Past' = Past
  BY Zenon DEF SkipTombstone, Past
<1>2. PICK r : r = Popped /\ r = reader'
  BY Zenon DEF SkipTombstone
<1>3. PICK p \in Partitions, o \in Offsets : p = NextPartition /\ o = NextOffset
  BY Zenon, <1>1, PoppedFacts
<1>4. k' = Tombstone(k, p, o) /\ log[p][o] # "value"
  BY Zenon, <1>3 DEF SkipTombstone, IsPayload
<1>5. /\ r \in ReaderType /\ r.pc \in {"poll", "yield"} /\ (r.pc = "yield" => r.batch # Empty)
      /\ \A q \in Partitions : r.batch[q] \subseteq reader.batch[q]
      /\ r.epochs = reader.epochs /\ r.position = reader.position
  BY Zenon, <1>1, <1>2, PoppedFacts
<1>6. Live /\ Recorded(k, reader.batch, reader.epochs) /\ TypeOK /\ k.consumer = TRUE
      /\ (owned = {} \/ owned = k.assigned)
      /\ Sound(log, committed, Past, metas, k, reader.position, owned)
  BY Zenon, <1>1 DEF Inv, Live, TypeOK, SourceType
<1>7. PICK t : t = k'
  BY Zenon
<1>8. /\ t \in SourceType /\ Sound(log, committed, Past, metas, t, reader.position, owned)
      /\ t.consumer = k.consumer /\ t.assigned = k.assigned /\ t.epoch = k.epoch
      /\ t.readMin = k.readMin
  <2>1. CASE t = k
    BY Zenon, <1>6, <2>1 DEF TypeOK
  <2>2. CASE t # k
    <3>1. t = Advance(Marked(k, p, o, "tombstone"), p)
      BY Zenon, <1>4, <1>7, <2>2 DEF Tombstone, Marked
    <3>2. k \in SourceType /\ reader \in ReaderType /\ owned \in SUBSET Partitions
          /\ committed \in [Partitions -> 0..LogEnd]
      BY Zenon, <1>6 DEF TypeOK
    <3>3. Sound(log, committed, Past, metas, t, reader.position, owned)
      BY Zenon, <1>4, <1>6, <3>1, <3>2, SweepSound
    <3>4. /\ t \in SourceType /\ t.consumer = k.consumer /\ t.assigned = k.assigned
          /\ t.epoch = k.epoch /\ t.readMin = k.readMin
      BY <3>1, <3>2, SweepFacts
    <3> QED
      BY Zenon, <3>3, <3>4
  <2> QED
    BY Zenon, <2>1, <2>2
<1>9. TypeOK'
  BY Zenon, <1>1, <1>2, <1>5, <1>6, <1>7, <1>8 DEF TypeOK
<1>10. reader'.pc = "yield" => Recorded(k', reader'.batch, reader'.epochs)
  <2>1. \A q \in Partitions : reader'.batch[q] # {} => reader.batch[q] # {}
    BY Zenon, <1>2, <1>5
  <2> QED
    BY ZenonT(60), <1>2, <1>5, <1>6, <1>7, <1>8, <2>1 DEF Recorded
<1>11. Live' /\ reader'.pc # "commit"
  BY Zenon, <1>2, <1>5 DEF Live
<1>12. \A q \in Partitions : Safe(log', Past', q, committed'[q])
  BY Zenon, <1>1 DEF Inv
<1> QED
  BY Zenon, <1>1, <1>2, <1>5, <1>6, <1>7, <1>8, <1>9, <1>10, <1>11, <1>12 DEF Inv

\* A decision is acknowledged: it counts only under the epoch of its record.
LEMMA AckInv ==
    ASSUME Inv, NEW m \in metas, Ack(m)
    PROVE  Inv'
<1>1. /\ TypeOK /\ (reset = "earliest" => skipped = {})
      /\ UNCHANGED <<log, end, reset, committed, owned, reader, metas, skipped, faults>>
  BY Zenon DEF Inv, Ack
<1>2. PICK p \in Partitions, o \in Offsets : p = m[1] /\ o = m[2]
  BY Zenon, <1>1 DEF TypeOK
<1>3. PICK D : D = Past' /\ D = Past \cup {<<p, o>>}
  <2>1. decided' = decided \cup {<<m[1], m[2]>>}
    BY Zenon DEF Ack
  <2>2. Past' = Past \cup {<<p, o>>}
    BY Zenon, <1>1, <1>2, <2>1 DEF Past
  <2> QED
    BY Zenon, <2>2
<1>4. decided' \subseteq Partitions \X Offsets /\ Past \subseteq D /\ <<p, o>> \in D
  <2>1. decided' = decided \cup {<<p, o>>}
    BY Zenon, <1>2 DEF Ack
  <2> QED
    BY <1>1, <1>3, <2>1 DEF TypeOK
<1>5. /\ \A q \in Partitions : Safe(log, D, q, committed[q])
      /\ Live => Sound(log, committed, D, metas, k, reader.position, owned)
      /\ reader.pc = "commit" => Draining(log, committed, D, k, reader, owned)
  <2>1. \A q \in Partitions : Safe(log, D, q, committed[q])
    BY Zenon, <1>4, DecidedGrows DEF Inv
  <2>2. Live => Sound(log, committed, D, metas, k, reader.position, owned)
    BY Zenon, <1>4, DecidedGrows DEF Inv
  <2>3. reader.pc = "commit" => Draining(log, committed, D, k, reader, owned)
    BY Zenon, <1>4, DecidedGrows DEF Inv
  <2> QED
    BY Zenon, <2>1, <2>2, <2>3
<1>6. PICK t : t = k' /\ t = Acked(k, m)
  BY Zenon DEF Ack
<1>7. /\ t \in SourceType /\ t.consumer = k.consumer /\ t.assigned = k.assigned
      /\ t.epoch = k.epoch /\ t.readMin = k.readMin
      /\ Live => Sound(log, committed, D, metas, t, reader.position, owned)
      /\ reader.pc = "commit" => Draining(log, committed, D, t, reader, owned)
  <2>1. CASE t = k
    BY Zenon, <1>1, <1>5, <2>1 DEF TypeOK
  <2>2. CASE t # k
    <3>1. m[3] = EpochOf(k, p) /\ k.consumer /\ t = AckOffset(k, p, o)
      BY Zenon, <1>2, <1>6, <2>2 DEF Acked
    <3>2. Live /\ Sound(log, committed, D, metas, k, reader.position, owned)
      BY Zenon, <1>5, <3>1 DEF Inv
    <3>3. k.readMin[p] # 0
      BY Zenon, <1>2, <3>1, <3>2 DEF Sound, Fences
    <3>4. t = Advance(Marked(k, p, o, "ack"), p)
      BY Zenon, <2>2, <3>1, <3>3 DEF AckOffset, Marked
    <3>5. k \in SourceType /\ reader \in ReaderType /\ owned \in SUBSET Partitions
          /\ committed \in [Partitions -> 0..LogEnd]
      BY Zenon, <1>1 DEF TypeOK
    <3>6. Sound(log, committed, D, metas, t, reader.position, owned)
      BY Zenon, <1>4, <3>2, <3>4, <3>5, SweepSound
    <3>7. /\ t \in SourceType /\ t.consumer = k.consumer /\ t.assigned = k.assigned
          /\ t.epoch = k.epoch /\ t.readMin = k.readMin
      BY SMTT(30), <3>4, <3>5, SweepFacts
    <3>8. Draining(log, committed, D, k, reader, owned) => Draining(log, committed, D, t, reader, owned)
      BY Zenon, <1>4, <3>2, <3>4, <3>5, SweepDraining
    <3> QED
      BY Zenon, <1>5, <3>6, <3>7, <3>8
  <2> QED
    BY Zenon, <2>1, <2>2
<1>8. TypeOK'
  BY Zenon, <1>1, <1>3, <1>4, <1>6, <1>7 DEF TypeOK
<1>9. reader'.pc = "yield" => Recorded(k', reader'.batch, reader'.epochs)
  BY Zenon, <1>1, <1>6, <1>7 DEF Inv, Recorded
<1>10. Live' <=> Live
  BY Zenon, <1>1 DEF Live
<1> QED
  BY Zenon, <1>1, <1>3, <1>5, <1>6, <1>7, <1>8, <1>9, <1>10 DEF Inv

\* A lost session leaves the source as it is.
LEMMA SessionLostInv ==
    ASSUME Inv, SessionLost
    PROVE  Inv'
<1>1. /\ owned' = {} /\ faults' \in Nat /\ UNCHANGED <<log, end, reset, committed, k, reader, metas, decided, skipped>> /\ Past' = Past
  BY DEF Inv, TypeOK, SessionLost, Fault, Past
<1>2. TypeOK'
  BY Zenon, <1>1 DEF Inv, TypeOK
<1>3. Owns(committed, k, reader.position, {})
  BY Zenon DEF Owns
<1>4. Sound(log, committed, Past, metas, k, reader.position, owned) =>
        Sound(log, committed, Past, metas, k, reader.position, {})
  BY Zenon, <1>3 DEF Sound
<1>5. Draining(log, committed, Past, k, reader, owned) =>
        Draining(log, committed, Past, k, reader, {})
  BY Zenon DEF Draining, Takes
<1>6. Live' <=> Live
  BY Zenon, <1>1 DEF Live
<1> QED
  BY ZenonT(60), <1>1, <1>2, <1>4, <1>5, <1>6 DEF Inv

\* Another member moves only what this one does not own.
LEMMA OtherCommitsInv ==
    ASSUME Inv, NEW p \in Partitions, NEW n \in Offsets, OtherCommits(p, n)
    PROVE  Inv'
<1>1. /\ TypeOK /\ p \notin owned /\ (reset = "earliest" => skipped = {})
      /\ UNCHANGED <<log, end, reset, owned, k, reader, metas, faults>>
  BY Zenon DEF Inv, OtherCommits
<1> DEFINE jumped == {<<p, x>> : x \in (committed[p] + 1)..(n - 1)}
<1>2. /\ committed[p] < n /\ (n # committed[p] + 1 => reset = "latest")
      /\ committed' = [committed EXCEPT ![p] = n]
      /\ decided' = decided \cup {<<p, n>>} /\ skipped' = skipped \cup jumped
  BY Zenon DEF OtherCommits, ResetToEnd
<1>3. PICK C, D : /\ C = committed' /\ C = [committed EXCEPT ![p] = n]
                  /\ D = Past' /\ D = Past \cup {<<p, n>>} \cup jumped
  <2> HIDE DEF jumped
  <2>1. Past' = Past \cup {<<p, n>>} \cup jumped
    BY Zenon, <1>2 DEF Past
  <2> QED
    BY Zenon, <1>2, <2>1
<1>4. /\ committed \in [Partitions -> 0..LogEnd] /\ committed[p] \in Nat
      /\ n \in Nat /\ n \in 0..LogEnd
  BY <1>1, KafkaConstants DEF TypeOK, Offsets
<1>5. C \in [Partitions -> 0..LogEnd] /\ \A q \in Partitions : C[q] = IF q = p THEN n ELSE committed[q]
  BY Zenon, <1>3, <1>4
<1>6. /\ decided' \subseteq Partitions \X Offsets /\ skipped' \subseteq Partitions \X Offsets
      /\ Past \subseteq D /\ (reset = "earliest" => skipped' = {})
  <2>1. (committed[p] + 1)..(n - 1) \subseteq Offsets
    BY <1>4, KafkaConstants DEF Offsets
  <2>2. n = committed[p] + 1 => (committed[p] + 1)..(n - 1) = {}
    BY <1>4
  <2>3. jumped \subseteq Partitions \X Offsets /\ (n = committed[p] + 1 => jumped = {})
    BY <2>1, <2>2
  <2> HIDE DEF jumped
  <2>4. Past \subseteq D
    BY Zenon, <1>3
  <2>5. decided' \subseteq Partitions \X Offsets /\ skipped' \subseteq Partitions \X Offsets
    BY <1>1, <1>2, <2>3 DEF TypeOK
  <2>6. reset = "earliest" => skipped' = {}
    BY Zenon, <1>1, <1>2, <2>3
  <2> QED
    BY Zenon, <2>4, <2>5, <2>6
<1>7. TypeOK'
  BY Zenon, <1>1, <1>3, <1>5, <1>6 DEF TypeOK
<1>8. \A q \in Partitions : Safe(log, D, q, C[q])
  <2>1. \A q \in Partitions : Safe(log, Past, q, committed[q])
    BY Zenon DEF Inv
  <2>2. \A q \in Partitions : Safe(log, D, q, committed[q])
    BY Zenon, <1>6, <2>1, DecidedGrows
  <2>3. Safe(log, D, p, n)
    <3>1. ASSUME NEW o \in Offsets, o <= n, log[p][o] = "value" PROVE <<p, o>> \in D
      <4>1. o <= committed[p] \/ o = n \/ o \in (committed[p] + 1)..(n - 1)
        BY <1>4, <3>1 DEF Offsets
      <4> QED
        BY Zenon, <1>3, <2>2, <3>1, <4>1 DEF Safe
    <3> QED
      BY Zenon, <3>1 DEF Safe
  <2> QED
    BY Zenon, <1>5, <2>2, <2>3
<1>9. owned \subseteq Partitions /\ \A q \in owned : C[q] = committed[q]
  BY Zenon, <1>1, <1>5 DEF TypeOK
<1>10. Live => Sound(log, C, D, metas, k, reader.position, owned)
  <2>1. Live => Sound(log, committed, D, metas, k, reader.position, owned)
    BY Zenon, <1>6, DecidedGrows DEF Inv
  <2>2. Owns(committed, k, reader.position, owned) => Owns(C, k, reader.position, owned)
    BY Zenon, <1>9 DEF Owns
  <2> QED
    BY Zenon, <2>1, <2>2 DEF Sound
<1>11. reader.pc = "commit" => Draining(log, C, D, k, reader, owned)
  <2>1. reader.pc = "commit" => Draining(log, committed, D, k, reader, owned)
    BY Zenon, <1>6, DecidedGrows DEF Inv
  <2>2. Takes(log, committed, D, k, reader.taken, owned) => Takes(log, C, D, k, reader.taken, owned)
    BY Zenon, <1>9 DEF Takes
  <2> QED
    BY Zenon, <2>1, <2>2 DEF Draining
<1>12. Live' <=> Live
  BY Zenon, <1>1 DEF Live
<1> QED
  BY Zenon, <1>1, <1>3, <1>6, <1>7, <1>8, <1>10, <1>11, <1>12 DEF Inv

\* No consumer could be built.
LEMMA BuildFailsInv ==
    ASSUME Inv, BuildFails
    PROVE  Inv'
<1>1. /\ reader.pc = "build" /\ reader' = [reader EXCEPT !.pc = "failed"] /\ faults' \in Nat
      /\ UNCHANGED <<log, end, reset, committed, owned, k, metas, decided, skipped>> /\ Past' = Past
  BY DEF Inv, TypeOK, BuildFails, Fault, Past
<1>2. reader' \in ReaderType /\ reader'.pc = "failed"
  BY Zenon, <1>1 DEF Inv, TypeOK, ReaderType
<1>3. TypeOK'
  BY Zenon, <1>1, <1>2 DEF Inv, TypeOK
<1>4. ~Live /\ ~Live'
  BY Zenon, <1>1, <1>2 DEF Live
<1> QED
  BY Zenon, <1>1, <1>2, <1>3, <1>4 DEF Inv

\* A record is appended: nothing that was read or committed lies behind it.
LEMMA ProduceInv ==
    ASSUME Inv, NEW p \in Partitions, Produce(p)
    PROVE  Inv'
<1>1. /\ UNCHANGED <<log, reset, committed, owned, k, reader, metas, decided, skipped, faults>>
      /\ Past' = Past /\ end' = [end EXCEPT ![p] = end[p] + 1] /\ end[p] < LogEnd
  BY Zenon DEF Produce, Past
<1>2. end[p] + 1 \in 0..LogEnd /\ end \in [Partitions -> 0..LogEnd]
  BY <1>1, KafkaConstants DEF Inv, TypeOK
<1>3. TypeOK'
  BY Zenon, <1>1, <1>2 DEF Inv, TypeOK
<1>4. Live' <=> Live
  BY Zenon, <1>1 DEF Live
<1> QED
  BY Zenon, <1>1, <1>3, <1>4 DEF Inv

-----------------------------------------------------------------------------
(* The theorems.                                                           *)

\* A new source has read, decided and committed nothing.
LEMMA InitInv == Init => Inv
<1> SUFFICES ASSUME Init PROVE Inv
  BY Zenon
<1>1. TypeOK
  <2>1. log \in Logs /\ end \in [Partitions -> 0..LogEnd] /\ reset \in Resets
    <3>1. PICK s \in [log : Logs, end : [Partitions -> 0..LogEnd], reset : Resets] :
            log = s.log /\ end = s.end /\ reset = s.reset
      BY Zenon, KafkaConstants DEF Init
    <3> QED
      BY <3>1
  <2> QED
    BY Zenon, <2>1, NewTypes DEF Init, TypeOK
<1>2. k.consumer = FALSE /\ reader.pc = "build" /\ owned = {}
  BY Zenon DEF Init, NewSource, NewReader
<1>3. \A p \in Partitions : Safe(log, Past, p, committed[p])
  BY DEF Init, Safe, None, Offsets
<1>4. skipped = {}
  BY Zenon DEF Init
<1> QED
  BY Zenon, <1>1, <1>2, <1>3, <1>4 DEF Inv, Live

\* The invariant reads nothing but the variables.
LEMMA StutterInv ==
    ASSUME Inv, UNCHANGED kvars
    PROVE  Inv'
<1>1. /\ UNCHANGED <<log, end, reset, committed, owned, k, reader, metas, decided, skipped, faults>>
      /\ Past' = Past
  BY Zenon DEF kvars, Past
<1>2. TypeOK' /\ (Live' <=> Live)
  BY Zenon, <1>1 DEF Inv, TypeOK, Live
<1> QED
  BY Zenon, <1>1, <1>2 DEF Inv

\* Every step keeps the invariant.
LEMMA NextInv ==
    ASSUME Inv, [Next]_kvars
    PROVE  Inv'
<1>1. CASE ReaderStep
  <2>1. CASE Build
    BY Zenon, <2>1, BuildInv
  <2>2. CASE PollFails
    BY Zenon, <2>2, CloseInv
  <2>3. CASE CommitOk
    BY Zenon, <2>3, CommitOkInv
  <2>4. CASE \E ps \in SUBSET Partitions, upto \in [Partitions -> 0..LogEnd] : Poll(ps, upto)
    BY Zenon, <2>4, PollInv
  <2>5. CASE \E a \in BOOLEAN : CommitFails(a)
    BY Zenon, <2>5, CommitFailsInv
  <2>6. CASE Yield
    BY Zenon, <2>6, YieldInv
  <2>7. CASE SkipTombstone
    BY Zenon, <2>7, SkipInv
  <2>8. CASE BuildFails
    BY Zenon, <2>8, BuildFailsInv
  <2> QED
    BY Zenon, <1>1, <2>1, <2>2, <2>3, <2>4, <2>5, <2>6, <2>7, <2>8 DEF ReaderStep
<1>2. CASE SessionLost
  BY Zenon, <1>2, SessionLostInv
<1>3. CASE Close
  BY Zenon, <1>3, CloseInv
<1>4. CASE \E m \in metas : Ack(m)
  BY Zenon, <1>4, AckInv
<1>5. CASE \E p \in Partitions, o \in Offsets : OtherCommits(p, o)
  BY Zenon, <1>5, OtherCommitsInv
<1>6. CASE \E p \in Partitions : Produce(p)
  BY Zenon, <1>6, ProduceInv
<1>7. CASE UNCHANGED kvars
  BY Zenon, <1>7, StutterInv
<1> QED
  BY Zenon, <1>1, <1>2, <1>3, <1>4, <1>5, <1>6, <1>7 DEF Next

\* The invariant holds in every reachable state.
LEMMA Invariant == Spec => []Inv
<1>1. Inv /\ [Next]_kvars => Inv'
  BY Zenon, NextInv
<1> QED
  BY InitInv, <1>1, PTL DEF Spec

(***************************************************************************)
(* Whatever the order of the acks, the rebalances, the lost sessions and   *)
(* the failed commits, the group's offset lies past no undecided payload:  *)
(* a restart reads it again (KafkaSource.ack, _advance_decided_frontier).  *)
(* Only the payloads that auto_offset_reset=latest jumped over before the  *)
(* first commit of their partition are passed; under earliest none is.     *)
(***************************************************************************)
THEOREM CommittedPayloadsAreDecided == Spec => []CommittedIsDecided
<1>1. Inv => CommittedIsDecided
  BY Zenon DEF Inv, CommittedIsDecided, Safe, Past
<1> QED
  BY Invariant, <1>1, PTL

(***************************************************************************)
(* No commit moves a partition's offset back, be it retried after a        *)
(* failure or sent after the partition was lost (_drain_pending_commits,   *)
(* _forget_partition).                                                     *)
(***************************************************************************)
THEOREM CommitsNeverRegress == Spec => CommitNeverRegresses
<1>1. ASSUME Inv, [Next]_kvars
      PROVE  [\A p \in Partitions : committed'[p] >= committed[p]]_kvars
  <2>1. \A p \in Partitions : committed[p] \in 0..LogEnd /\ 0..LogEnd \subseteq Int
    BY <1>1 DEF Inv, TypeOK
  <2>2. CASE committed' = committed
    BY <2>1, <2>2
  <2>3. CASE CommitOk
    BY Zenon, <1>1, <2>3, AppliedFacts DEF CommitOk
  <2>4. ASSUME NEW a \in BOOLEAN, CommitFails(a), committed' # committed
        PROVE  \A p \in Partitions : committed'[p] >= committed[p]
    <3>1. reader.pc = "commit" /\ Taken \subseteq owned /\ committed' = Applied
      BY Zenon, <2>4 DEF CommitFails
    <3> QED
      BY Zenon, <1>1, <3>1, AppliedFacts
  <2>5. ASSUME NEW q \in Partitions, NEW o \in Offsets, OtherCommits(q, o)
        PROVE  \A p \in Partitions : committed'[p] >= committed[p]
    <3>1. /\ committed \in [Partitions -> 0..LogEnd] /\ committed' = [committed EXCEPT ![q] = o]
          /\ committed[q] < o
      BY Zenon, <1>1, <2>5 DEF OtherCommits, Inv, TypeOK
    <3> QED
      BY <2>1, <3>1 DEF Offsets
  <2>6. \/ committed' = committed \/ CommitOk
        \/ \E a \in BOOLEAN : CommitFails(a)
        \/ \E q \in Partitions, o \in Offsets : OtherCommits(q, o)
    BY Zenon, <1>1 DEF Next, ReaderStep, Build, BuildFails, Produce, PollFails, Poll, Yield, SkipTombstone, SessionLost, Close,
                Ack, kvars
  <2> QED
    BY ZenonT(60), <2>2, <2>3, <2>4, <2>5, <2>6
<1> QED
  BY Invariant, <1>1, PTL DEF Spec, CommitNeverRegresses
=============================================================================
