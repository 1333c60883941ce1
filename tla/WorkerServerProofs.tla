------------------------- MODULE WorkerServerProofs -------------------------
(* Proofs about WorkerServer for every set of attempts, runs and requests, *)
(* any number of boots and failed commits, and two concurrent drain        *)
(* passes.                                                                 *)
EXTENDS WorkerServer, JournalLemmas, SequenceTheorems, WellFoundedInduction

Res(a) == ReservationState(journal, a)
Done(a) == journal.completion[a] # None
Value(a) == journal.completion[a].result

-----------------------------------------------------------------------------
(* The inductive invariant.                                                *)

\* The types, and the consistency of the journal.
Types == TypeOK /\ JournalInv(journal)

\* A legacy run has no reservation, a started attempt has one, and a
\* reservation is completed together with the result.
JournalFits ==
    \A a \in Attempts :
        /\ a \in Legacy => Res(a) = "absent"
        /\ a \in started \ Legacy => Res(a) # "absent"
        /\ Res(a) = "completed" => Done(a)

\* A request past the admission holds a reservation nobody has started; once
\* it has started the thread, that thread is there, or has reported.
RequestsFit ==
    \A q \in Requests :
        LET a == request[q].token.attempt
        IN  /\ request[q].pc # "idle" => request[q].token \in Tokens
            /\ request[q].pc \in {"gated", "admitted"} => thread[q].pc = "none"
            /\ request[q].pc \in {"gated", "started"} => a \notin Legacy
            /\ request[q].pc = "admitted" /\ a \notin Legacy =>
                  a \notin started /\ Res(a) \in {"reserved", "running", "completed"}
            /\ request[q].pc = "started" =>
                  \/ thread[q].pc # "none" /\ thread[q].attempt = a
                  \/ Done(a) \/ failures > 0

\* A thread runs a started attempt whose reservation stands.
ThreadsFit ==
    \A q \in Requests : thread[q].pc # "none" =>
        LET a == thread[q].attempt
        IN  /\ a \in started
            /\ a \notin Legacy =>
                  a \in Keys /\ Res(a) \in {"reserved", "running", "completed"}
            /\ thread[q].pc \in {"returned", "raised"} => thread[q].result \in Results
            /\ thread[q].pc = "leaving" => Done(a) \/ failures > 0

\* The request or the thread that works on an attempt.
Holds(q, a) ==
    \/ request[q].pc = "admitted" /\ request[q].token.attempt = a
    \/ thread[q].pc # "none" /\ thread[q].attempt = a

OneHolder ==
    \A a \in Attempts \ Legacy : \A p, q \in Requests : Holds(p, a) /\ Holds(q, a) => p = q

\* A process that is down has neither.
DownIsEmpty ==
    process = "down" => \A q \in Requests : request[q].pc = "idle" /\ thread[q].pc = "none"

\* The rows of a pass have results; a row about to be acknowledged was received.
SendersFit ==
    \A s \in {"loop", "final"} :
        /\ \A a \in sender[s].rows : Done(a)
        /\ sender[s].pc # "idle" => sender[s].row \in Attempts /\ Done(sender[s].row)
        /\ sender[s].pc = "acking" => <<sender[s].row, Value(sender[s].row)>> \in received

\* What the manager received through the journal is what the journal holds.
ReceivedFits ==
    /\ \A x \in received : (x[1] \in Legacy => failures = 0) => Done(x[1]) /\ Value(x[1]) = x[2]
    /\ \A a \in Attempts : Acked(journal, a) => <<a, Value(a)>> \in received

\* WorkerState: the keys are unique, and the index of a run leads to one of its
\* keys as long as there is one.
IndexFits ==
    /\ \A i, j \in DOMAIN runs : runs[i].attempt = runs[j].attempt => i = j
    /\ \A r \in Runs : byRun[r] # None => byRun[r] \in Keys /\ RunOf[byRun[r]] = r
    /\ \A a \in Keys : byRun[RunOf[a]] # None

\* An active reservation without a result has a request or a thread.
ActiveIsOwned ==
    process # "down" /\ failures = 0 =>
        \A a \in Attempts : Res(a) \in {"reserved", "running"} /\ ~Done(a) =>
            \E q \in Requests :
                \/ request[q].pc \in {"admitted", "started"} /\ request[q].token.attempt = a
                \/ thread[q].pc # "none" /\ thread[q].attempt = a

Inv == /\ Types /\ JournalFits /\ RequestsFit /\ ThreadsFit /\ OneHolder
       /\ DownIsEmpty /\ SendersFit /\ ReceivedFits /\ IndexFits /\ ActiveIsOwned

\* Init satisfies the invariant.
LEMMA InitInv == Init => Inv
<1> SUFFICES ASSUME Init PROVE Inv
  BY Zenon
<1> USE DEF Init
<1>1. Types
  <2>1. /\ request \in [Requests -> RequestType] /\ thread \in [Requests -> ThreadType]
        /\ sender \in [{"loop", "final"} -> SenderType]
    BY Zenon DEF RequestType, ThreadType, SenderType, NoRequest, NoThread, NoPass
  <2>2. /\ journal \in JournalType /\ session \in Sessions /\ failures \in 0..MaxFailures
        /\ runs \in Seq([attempt : Attempts, req : Requests])
        /\ byRun \in [Runs -> Attempts \cup {None}]
        /\ received \subseteq Attempts \X Results
        /\ process \in {"up", "stopping", "closing", "down"}
    BY EmptyJournalInv, WorkerConstants DEF JournalInv, Sessions
  <2> QED
    BY Zenon, <2>1, <2>2, EmptyJournalInv DEF Types, TypeOK
<1>2. \A a \in Attempts : Res(a) = "absent" /\ ~Done(a)
  BY Zenon DEF Res, Done, ReservationState, EmptyJournal
<1>3. \A q \in Requests : request[q].pc = "idle" /\ thread[q].pc = "none"
  BY Zenon DEF NoRequest, NoThread
<1>4. \A s \in {"loop", "final"} : sender[s].pc = "idle" /\ sender[s].rows = {}
  BY Zenon DEF NoPass
<1>5. JournalFits /\ ActiveIsOwned
  BY Zenon, <1>2 DEF JournalFits, ActiveIsOwned
<1>6. RequestsFit /\ ThreadsFit /\ OneHolder /\ DownIsEmpty
  BY Zenon, <1>3 DEF RequestsFit, ThreadsFit, OneHolder, Holds, DownIsEmpty
<1>7. SendersFit /\ ReceivedFits
  BY Zenon, <1>2, <1>4 DEF SendersFit, ReceivedFits, Acked, Done
<1>8. IndexFits
  BY DEF IndexFits, Keys
<1> QED
  BY Zenon, <1>1, <1>5, <1>6, <1>7, <1>8 DEF Inv

-----------------------------------------------------------------------------
(* Frames: what a step that leaves a part of the state alone keeps.        *)

\* The facts about requests, threads and reservations.
WorkFits == /\ JournalFits /\ RequestsFit /\ ThreadsFit /\ OneHolder
            /\ DownIsEmpty /\ IndexFits /\ ActiveIsOwned

\* A step that leaves the work alone keeps them.
LEMMA WorkFrame ==
    ASSUME Inv, UNCHANGED <<request, thread, runs, byRun, started, failures>>,
           process' = "down" <=> process = "down",
           \A a \in Attempts : Res(a)' = Res(a) /\ (Done(a)' <=> Done(a))
    PROVE  WorkFits'
<1>0. Types
  BY Zenon DEF Inv
<1>1. JournalFits'
  BY Zenon DEF Inv, JournalFits
<1>2. RequestsFit'
  <2>1. \A q \in Requests : request[q].pc # "idle" => request[q].token.attempt \in Attempts
    BY Zenon DEF Inv, RequestsFit, Tokens
  <2> QED
    BY Zenon, <2>1 DEF Inv, RequestsFit
<1>3. ThreadsFit'
  BY Zenon DEF Inv, ThreadsFit, Keys, Types, TypeOK
<1>4. OneHolder' /\ DownIsEmpty' /\ IndexFits'
  BY DEF Inv, OneHolder, Holds, DownIsEmpty, IndexFits, Keys
<1>5. ActiveIsOwned'
  BY Zenon DEF Inv, ActiveIsOwned
<1> QED
  BY Zenon, <1>1, <1>2, <1>3, <1>4, <1>5 DEF WorkFits

\* The index of the runs depends on nothing else.
LEMMA IndexFrame ==
    ASSUME Inv, UNCHANGED <<runs, byRun>>
    PROVE  IndexFits'
<1>1. Keys' = Keys
  BY Zenon DEF Keys
<1>2. IndexFits
  BY Zenon DEF Inv
<1> QED
  BY Zenon, <1>1, <1>2 DEF IndexFits

\* Requests and threads that end leave a process that is down empty.
LEMMA DownFrame ==
    ASSUME Inv, process' = process,
           \A p \in Requests : request[p].pc = "idle" => request'[p].pc = "idle",
           \A p \in Requests : thread[p].pc = "none" => thread'[p].pc = "none"
    PROVE  DownIsEmpty'
<1>1. DownIsEmpty
  BY Zenon DEF Inv
<1> QED
  BY Zenon, <1>1 DEF DownIsEmpty

\* Who works on an attempt is unique as long as nobody begins to.
LEMMA HolderFrame ==
    ASSUME Inv, \A p \in Requests, a \in Attempts \ Legacy : Holds(p, a)' => Holds(p, a)
    PROVE  OneHolder'
<1>1. OneHolder
  BY Zenon DEF Inv
<1> QED
  BY Zenon, <1>1 DEF OneHolder

\* What was sent and received fits as long as the results stay.
LEMMA DeliveryFrame ==
    ASSUME Inv, UNCHANGED <<sender, received>>, failures <= failures', failures' \in Nat,
           \A a \in Attempts : Done(a) => Done(a)' /\ Value(a)' = Value(a),
           \A a \in Attempts : Acked(journal', a) => Acked(journal, a)
    PROVE  SendersFit' /\ ReceivedFits'
<1>0. /\ sender \in [{"loop", "final"} -> SenderType]
      /\ received \subseteq Attempts \X Results /\ failures \in Nat
  BY WorkerConstants DEF Inv, Types, TypeOK
<1>1. \A s \in {"loop", "final"} : sender[s].rows \subseteq Attempts
  BY Zenon, <1>0 DEF SenderType
<1>2. SendersFit'
  BY Zenon, <1>1 DEF Inv, SendersFit
<1>3. \A x \in received : x[1] \in Attempts
  BY Zenon, <1>0
<1>4. ASSUME NEW x \in received, x[1] \in Legacy => failures' = 0
      PROVE  Done(x[1])' /\ Value(x[1])' = x[2]
  <2>1. x[1] \in Legacy => failures = 0
    BY <1>0, <1>4
  <2> QED
    BY Zenon, <1>3, <2>1 DEF Inv, ReceivedFits
<1>5. ASSUME NEW a \in Attempts, Acked(journal', a)
      PROVE  <<a, Value(a)'>> \in received
  <2>1. Acked(journal, a) /\ Done(a)
    BY Zenon, <1>5 DEF Acked, Done
  <2> QED
    BY Zenon, <2>1 DEF Inv, ReceivedFits
<1> QED
  BY Zenon, <1>2, <1>4, <1>5 DEF ReceivedFits

\* The entries of WorkerState.
LEMMA EntryFacts ==
    ASSUME Types
    PROVE  /\ DOMAIN runs = 1..Len(runs) /\ Len(runs) \in Nat
           /\ \A i \in DOMAIN runs :
                 /\ runs[i] \in [attempt : Attempts, req : Requests]
                 /\ runs[i].attempt \in Attempts /\ runs[i].req \in Requests
<1> DEFINE E == [attempt : Attempts, req : Requests]
<1>1. runs \in Seq(E)
  BY Zenon DEF Types, TypeOK
<1>2. \A e \in E : e.attempt \in Attempts /\ e.req \in Requests
  BY Zenon
<1> HIDE DEF E
<1>3. DOMAIN runs = 1..Len(runs) /\ Len(runs) \in Nat /\ \A i \in DOMAIN runs : runs[i] \in E
  BY <1>1
<1> QED
  BY Zenon, <1>2, <1>3 DEF E

-----------------------------------------------------------------------------
(* WorkerState.                                                            *)

\* A set of naturals has a least element.
LEMMA MinOfNats ==
    ASSUME NEW S \in SUBSET Nat, S # {}
    PROVE  Min(S) \in S
<1> DEFINE R == {p \in Nat \X Nat : p[1] < p[2]}
<1>1. IsWellFoundedOn(R, Nat)
  BY Zenon, NatLessThanWellFounded DEF OpToRel
<1>2. PICK x \in S : \A y \in S : <<y, x>> \notin R
  <2> HIDE DEF R
  <2> QED
    BY Zenon, <1>1, WFMin
<1>3. \A y \in S : x <= y
  <2> TAKE y \in S
  <2>1. y < x => <<y, x>> \in R
    BY Zenon
  <2> QED
    BY <1>2, <2>1
<1> QED
  BY Zenon, <1>3 DEF Min

\* A sequence without its entry at j.
LEMMA RemoveAtFacts ==
    ASSUME NEW S, NEW s \in Seq(S), NEW j \in DOMAIN s
    PROVE  /\ RemoveAt(s, j) \in Seq(S) /\ DOMAIN RemoveAt(s, j) = 1..(Len(s) - 1)
           /\ \A i \in 1..(Len(s) - 1) :
                 RemoveAt(s, j)[i] = s[IF i < j THEN i ELSE i + 1]
<1>1. /\ DOMAIN RemoveAt(s, j) = 1..(Len(s) - 1)
      /\ \A i \in 1..(Len(s) - 1) :
            RemoveAt(s, j)[i] = IF i < j THEN s[i] ELSE s[i + 1]
  BY SMTT(60) DEF RemoveAt
<1>2. RemoveAt(s, j) \in Seq(S)
  BY SMTT(60) DEF RemoveAt
<1> QED
  BY Zenon, <1>1, <1>2

\* add makes a new key, or replaces the entry of an old one.
LEMMA AddKeeps ==
    ASSUME Types, IndexFits, NEW q \in Requests, NEW a \in Attempts, add(q, a)
    PROVE  /\ runs' \in Seq([attempt : Attempts, req : Requests])
           /\ byRun' \in [Runs -> Attempts \cup {None}]
           /\ Keys' = Keys \cup {a}
           /\ IndexFits'
<1> DEFINE E == [attempt : Attempts, req : Requests]
           e == [attempt |-> a, req |-> q]
<1>1. /\ runs \in Seq(E) /\ byRun \in [Runs -> Attempts \cup {None}]
      /\ DOMAIN runs = 1..Len(runs) /\ Len(runs) \in Nat
      /\ \A i \in DOMAIN runs : runs[i] \in E
      /\ RunOf[a] \in Runs /\ a # None
  BY Zenon, EntryFacts, WorkerConstants DEF Types, TypeOK
<1>2. /\ byRun' \in [Runs -> Attempts \cup {None}]
      /\ byRun'[RunOf[a]] = a
      /\ \A r \in Runs : r # RunOf[a] => byRun'[r] = byRun[r]
  BY Zenon, <1>1 DEF add
<1>3. runs' \in Seq(E) /\ Keys' = Keys \cup {a}
      /\ \A i, j \in DOMAIN runs' : runs'[i].attempt = runs'[j].attempt => i = j
  <2>1. CASE a \in Keys
    <3> DEFINE new(i) == IF runs[i].attempt = a THEN [runs[i] EXCEPT !.req = q] ELSE runs[i]
    <3>1. runs' = [i \in DOMAIN runs |-> new(i)]
      BY Zenon, <2>1 DEF add
    <3>2. \A i \in DOMAIN runs : new(i) \in E /\ new(i).attempt = runs[i].attempt
      BY Zenon, <1>1
    <3> HIDE DEF new, E
    <3>3. /\ runs' \in [1..Len(runs) -> E] /\ DOMAIN runs' = DOMAIN runs
          /\ \A i \in DOMAIN runs : runs'[i].attempt = runs[i].attempt
      BY Zenon, <1>1, <3>1, <3>2
    <3>4. runs' \in Seq(E)
      BY Zenon, <1>1, <3>3, SeqDef
    <3>5. Keys' = Keys
      BY Zenon, <3>3 DEF Keys
    <3> QED
      BY <2>1, <3>3, <3>4, <3>5 DEF IndexFits
  <2>2. CASE a \notin Keys
    <3>1. runs' = Append(runs, e)
      BY Zenon, <2>2 DEF add
    <3>2. e \in E /\ e.attempt = a
      BY Zenon
    <3> HIDE DEF e, E
    <3>3. /\ runs' \in Seq(E) /\ DOMAIN runs' = 1..(Len(runs) + 1)
          /\ runs'[Len(runs) + 1] = e
          /\ \A i \in DOMAIN runs : runs'[i] = runs[i]
      BY <1>1, <3>1, <3>2
    <3>4. Keys' = Keys \cup {a}
      BY <1>1, <3>2, <3>3 DEF Keys
    <3>5. \A i \in DOMAIN runs : runs[i].attempt # a
      BY Zenon, <2>2 DEF Keys
    <3> QED
      BY <1>1, <3>2, <3>3, <3>4, <3>5 DEF IndexFits
  <2> QED
    BY Zenon, <2>1, <2>2
<1>4. \A b \in Keys : b \in Attempts /\ RunOf[b] \in Runs
  BY Zenon, EntryFacts, WorkerConstants DEF Keys
<1>5. \A r \in Runs : byRun'[r] # None => byRun'[r] \in Keys' /\ RunOf[byRun'[r]] = r
  BY Zenon, <1>2, <1>3 DEF IndexFits
<1>6. \A b \in Keys' : byRun'[RunOf[b]] # None
  BY Zenon, <1>1, <1>2, <1>3, <1>4 DEF IndexFits
<1> QED
  BY Zenon, <1>2, <1>3, <1>5, <1>6 DEF IndexFits

\* remove takes the key out; the index then leads to another key of the run.
LEMMA RemoveKeeps ==
    ASSUME Types, IndexFits, NEW a \in Attempts, remove(a)
    PROVE  /\ runs' \in Seq([attempt : Attempts, req : Requests])
           /\ byRun' \in [Runs -> Attempts \cup {None}]
           /\ Keys' = Keys \ {a}
           /\ IndexFits'
<1> DEFINE E == [attempt : Attempts, req : Requests]
<1>1. /\ runs \in Seq(E) /\ byRun \in [Runs -> Attempts \cup {None}]
      /\ DOMAIN runs = 1..Len(runs) /\ Len(runs) \in Nat
      /\ \A i \in DOMAIN runs : runs[i] \in E
      /\ RunOf[a] \in Runs /\ a # None
      /\ runs' = Without(a)
  BY Zenon, EntryFacts, WorkerConstants DEF Types, TypeOK, remove
<1>2. runs' \in Seq(E) /\ Keys' = Keys \ {a}
      /\ \A i, j \in DOMAIN runs' : runs'[i].attempt = runs'[j].attempt => i = j
  <2>1. CASE a \in Keys
    <3> DEFINE k == CHOOSE i \in DOMAIN runs : runs[i].attempt = a
               from(i) == IF i < k THEN i ELSE i + 1
    <3>1. k \in DOMAIN runs /\ runs[k].attempt = a
      BY Zenon, <2>1 DEF Keys
    <3>2. runs' = RemoveAt(runs, k)
      BY Zenon, <1>1, <2>1 DEF Without
    <3> HIDE DEF k, E
    <3>3. /\ runs' \in Seq(E) /\ DOMAIN runs' = 1..(Len(runs) - 1)
          /\ \A i \in 1..(Len(runs) - 1) : runs'[i] = runs[from(i)]
      BY Zenon, <1>1, <3>1, <3>2, RemoveAtFacts
    <3>4. ASSUME NEW i \in DOMAIN runs'
          PROVE  \E j \in DOMAIN runs \ {k} : runs'[i] = runs[j]
      <4>1. from(i) \in DOMAIN runs \ {k} /\ runs'[i] = runs[from(i)]
        BY <1>1, <3>1, <3>3
      <4> QED
        BY Zenon, <4>1
    <3>5. ASSUME NEW j \in DOMAIN runs, j # k
          PROVE  \E i \in DOMAIN runs' : runs'[i] = runs[j]
      <4>1. j < k => j \in DOMAIN runs' /\ runs'[j] = runs[j]
        BY <1>1, <3>1, <3>3
      <4>2. j > k => j - 1 \in DOMAIN runs' /\ runs'[j - 1] = runs[j]
        BY <1>1, <3>1, <3>3
      <4> QED
        BY <1>1, <3>1, <3>5, <4>1, <4>2
    <3>6. \A j \in DOMAIN runs : runs[j].attempt = a => j = k
      BY Zenon, <3>1 DEF IndexFits
    <3>7. Keys' = Keys \ {a}
      BY <3>1, <3>4, <3>5, <3>6 DEF Keys
    <3>8. \A i, j \in DOMAIN runs' : runs'[i].attempt = runs'[j].attempt => i = j
      <4>1. \A i, j \in DOMAIN runs' : /\ from(i) \in DOMAIN runs
                                       /\ from(i) = from(j) => i = j
        BY <1>1, <3>1, <3>3
      <4> HIDE DEF from
      <4> QED
        BY <3>3, <4>1 DEF IndexFits
    <3> QED
      BY Zenon, <3>3, <3>7, <3>8
  <2>2. CASE a \notin Keys
    <3>1. runs' = runs /\ Keys' = Keys
      BY Zenon, <1>1, <2>2 DEF Without, Keys
    <3> QED
      BY <1>1, <2>2, <3>1 DEF IndexFits
  <2> QED
    BY Zenon, <2>1, <2>2
<1>3. \A b \in Keys : b \in Attempts /\ RunOf[b] \in Runs
  BY Zenon, EntryFacts, WorkerConstants DEF Keys
<1> DEFINE S == {i \in DOMAIN runs' : RunOf[runs'[i].attempt] = RunOf[a]}
           f == FirstOf(runs', RunOf[a])
<1>4. /\ S = {} => f = None
      /\ S # {} => f \in Keys' /\ RunOf[f] = RunOf[a]
  <2>1. S # {} => Min(S) \in S
    <3>1. S \in SUBSET Nat
      BY <1>2
    <3> HIDE DEF S
    <3> QED
      BY Zenon, <3>1, MinOfNats
  <2>2. f = IF S = {} THEN None ELSE runs'[Min(S)].attempt
    BY Zenon DEF FirstOf
  <2> QED
    BY Zenon, <2>1, <2>2 DEF Keys
<1>5. byRun' = [byRun EXCEPT ![RunOf[a]] = IF byRun[RunOf[a]] = a THEN f ELSE byRun[RunOf[a]]]
  BY Zenon, <1>1 DEF remove
<1>6. \A b \in Keys' : RunOf[b] = RunOf[a] => S # {}
  BY Zenon DEF Keys
<1> HIDE DEF S, f
<1>7. f \in Attempts \cup {None}
  BY Zenon, <1>2, <1>3, <1>4
<1>8. /\ byRun' \in [Runs -> Attempts \cup {None}]
      /\ byRun'[RunOf[a]] = IF byRun[RunOf[a]] = a THEN f ELSE byRun[RunOf[a]]
      /\ \A r \in Runs : r # RunOf[a] => byRun'[r] = byRun[r]
  BY Zenon, <1>1, <1>5, <1>7
<1>9. \A r \in Runs : byRun'[r] # None => byRun'[r] \in Keys' /\ RunOf[byRun'[r]] = r
  BY <1>2, <1>4, <1>8 DEF IndexFits
<1>10. \A b \in Keys' : byRun'[RunOf[b]] # None
  <2> TAKE b \in Keys'
  <2>1. b \in Keys /\ byRun[RunOf[b]] # None /\ RunOf[b] \in Runs
    BY Zenon, <1>2, <1>3 DEF IndexFits
  <2>2. CASE RunOf[b] = RunOf[a] /\ byRun[RunOf[a]] = a
    <3>1. f \in Keys'
      BY Zenon, <1>4, <1>6, <2>2
    <3> QED
      BY Zenon, <1>2, <1>3, <1>8, <2>2, <3>1, WorkerConstants
  <2> QED
    BY Zenon, <1>8, <2>1, <2>2
<1> QED
  BY Zenon, <1>2, <1>8, <1>9, <1>10 DEF IndexFits

-----------------------------------------------------------------------------
(* One lemma per handler: it keeps the invariant.                          *)

\* /agent/stop, /agent/drain and SIGTERM set events.
LEMMA StopInv ==
    ASSUME Inv, (\E r \in Runs : Stop(r)) \/ Drain \/ Shutdown
    PROVE  Inv'
<1>1. /\ UNCHANGED <<journal, session, request, thread, runs, byRun, sender, world>>
      /\ process' \in {"up", "stopping"} /\ process = "up"
  BY Zenon DEF Stop, Drain, Shutdown
<1>2. Active \subseteq Requests /\ \A r \in Runs : get(r) \subseteq Requests
  BY Zenon, EntryFacts DEF Inv, Active, get
<1>3. stopped' \subseteq Requests
  BY Zenon, <1>2 DEF Inv, Types, TypeOK, Stop, Drain, Shutdown
<1>4. draining' \in BOOLEAN
  BY Zenon DEF Inv, Types, TypeOK, Stop, Drain, Shutdown
<1>5. Types'
  BY Zenon, <1>1, <1>3, <1>4 DEF Inv, Types, TypeOK, world
<1>6. \A a \in Attempts : Res(a)' = Res(a) /\ Done(a)' = Done(a) /\ Value(a)' = Value(a)
  BY Zenon, <1>1 DEF Res, Done, Value
<1>7. WorkFits'
  BY Zenon, <1>1, <1>6, WorkFrame DEF world
<1>8. failures \in Nat
  BY WorkerConstants DEF Inv, Types, TypeOK
<1>9. SendersFit' /\ ReceivedFits'
  BY <1>1, <1>6, <1>8, DeliveryFrame DEF world
<1> QED
  BY Zenon, <1>5, <1>7, <1>9 DEF WorkFits, Inv

\* A drain pass fetches rows, skips acknowledged ones and records failures.
LEMMA PassInv ==
    ASSUME Inv, NEW s \in {"loop", "final"},
           \/ \E rows \in SUBSET journal.outbox : rows # {} /\ FetchDue(s, rows)
           \/ \E a \in Attempts : SkipRow(s, a)
           \/ FailRow(s)
    PROVE  Inv'
<1>0. /\ sender \in [{"loop", "final"} -> SenderType] /\ sender[s] \in SenderType
      /\ failures \in Nat /\ process # "down" => process' # "down"
      /\ journal.outbox \subseteq Attempts
      /\ \A a \in journal.outbox : Done(a)
  BY Zenon, WorkerConstants
     DEF Inv, Types, TypeOK, JournalInv, JournalType, OutboxIsKept, Done,
         FetchDue, SkipRow, FailRow
<1>1. PICK p \in SenderType :
        /\ sender' = [sender EXCEPT ![s] = p]
        /\ p.pc = "idle"
        /\ p.rows \subseteq sender[s].rows \cup journal.outbox
  <2> DEFINE P(p) == /\ sender' = [sender EXCEPT ![s] = p]
                     /\ p.pc = "idle"
                     /\ p.rows \subseteq sender[s].rows \cup journal.outbox
  <2>1. ASSUME NEW rows \in SUBSET journal.outbox, FetchDue(s, rows)
        PROVE  \E p \in SenderType : P(p)
    <3> DEFINE p == [sender[s] EXCEPT !.rows = rows]
    <3>1. p \in SenderType /\ P(p)
      BY <1>0, <2>1 DEF FetchDue, SenderType, NoPass
    <3> HIDE DEF p, P
    <3> QED
      BY Zenon, <3>1
  <2>2. ASSUME NEW a \in Attempts, SkipRow(s, a)
        PROVE  \E p \in SenderType : P(p)
    <3> DEFINE p == [sender[s] EXCEPT !.rows = sender[s].rows \ {a}]
    <3>1. p \in SenderType /\ P(p)
      BY Zenon, <1>0, <2>2 DEF SkipRow, SenderType
    <3> HIDE DEF p, P
    <3> QED
      BY Zenon, <3>1
  <2>3. ASSUME FailRow(s)
        PROVE  \E p \in SenderType : P(p)
    <3> DEFINE p == [pc |-> "idle", rows |-> sender[s].rows \ {sender[s].row}, row |-> None]
    <3>1. p \in SenderType /\ (RowDone(s) => P(p))
      BY Zenon, <1>0 DEF RowDone, SenderType
    <3>2. NoPass \in SenderType /\ (sender' = [sender EXCEPT ![s] = NoPass] => P(NoPass))
      BY Zenon DEF NoPass, SenderType
    <3>3. RowDone(s) \/ sender' = [sender EXCEPT ![s] = NoPass]
      BY Zenon, <2>3 DEF FailRow
    <3> HIDE DEF p, P
    <3> QED
      BY Zenon, <3>1, <3>2, <3>3
  <2> HIDE DEF P
  <2>4. \E p \in SenderType : P(p)
    BY Zenon, <2>1, <2>2, <2>3
  <2> QED
    BY Zenon, <2>4 DEF P
<1>2. UNCHANGED <<journal, session, draining, request, thread, stopped, runs, byRun, world>>
  BY Zenon DEF FetchDue, SkipRow, FailRow, RowDone
<1>3. /\ process' \in {"up", "stopping", "closing", "down"}
      /\ process' = "down" <=> process = "down"
  BY Zenon DEF Inv, Types, TypeOK, FetchDue, SkipRow, FailRow
<1>4. Types'
  BY Zenon, <1>0, <1>1, <1>2, <1>3 DEF Inv, Types, TypeOK, world
<1>5. \A a \in Attempts : Res(a)' = Res(a) /\ Done(a)' = Done(a) /\ Value(a)' = Value(a)
  BY Zenon, <1>2 DEF Res, Done, Value
<1>6. WorkFits'
  BY Zenon, <1>2, <1>3, <1>5, WorkFrame DEF world
<1>7. SendersFit'
  <2>1. \A t \in {"loop", "final"} : sender'[t] = IF t = s THEN p ELSE sender[t]
    BY Zenon, <1>0, <1>1
  <2>2. \A t \in {"loop", "final"} : sender[t].rows \subseteq Attempts
    BY Zenon, <1>0 DEF SenderType
  <2> QED
    BY Zenon, <1>0, <1>1, <1>2, <1>5, <2>1, <2>2 DEF Inv, SendersFit, world
<1>8. ReceivedFits'
  BY Zenon, <1>2 DEF Inv, ReceivedFits, Done, Value, world
<1> QED
  BY Zenon, <1>4, <1>6, <1>7, <1>8 DEF WorkFits, Inv

\* A post: the manager receives the result the journal holds, or nothing.
LEMMA PostRowInv ==
    ASSUME Inv, NEW s \in {"loop", "final"}, NEW a \in Attempts, PostRow(s, a)
    PROVE  Inv'
<1> DEFINE x == <<a, Value(a)>>
<1>0. /\ sender \in [{"loop", "final"} -> SenderType] /\ sender[s] \in SenderType
      /\ failures \in Nat /\ received \subseteq Attempts \X Results
      /\ JournalInv(journal) /\ a \in sender[s].rows /\ sender[s].pc = "idle"
  BY WorkerConstants DEF Inv, Types, TypeOK, PostRow
<1>1. Done(a) /\ Value(a) \in Results
  <2>1. Done(a)
    BY Zenon, <1>0 DEF Inv, SendersFit
  <2> QED
    BY Zenon, <1>0, <2>1 DEF Done, Value, JournalInv, JournalType, CompletionType
<1>2. PICK pc \in {"acking", "failing"} :
        /\ sender' = [sender EXCEPT ![s].pc = pc, ![s].row = a]
        /\ received' = received \/ received' = received \cup {x}
        /\ pc = "acking" => received' = received \cup {x}
  BY Zenon DEF PostRow, Value
<1>3. /\ UNCHANGED <<journal, session, process, draining, request, thread, stopped>>
      /\ UNCHANGED <<runs, byRun, started, failures>>
  BY Zenon DEF PostRow
<1> HIDE DEF x
<1>4. \A t \in {"loop", "final"} :
        IF t = s THEN /\ sender'[t] \in SenderType /\ sender'[t].pc = pc
                      /\ sender'[t].row = a /\ sender'[t].rows = sender[t].rows
        ELSE sender'[t] = sender[t]
  BY Zenon, <1>0, <1>2 DEF SenderType
<1>5. sender' \in [{"loop", "final"} -> SenderType]
  BY Zenon, <1>0, <1>2, <1>4
<1>6. received' \subseteq Attempts \X Results
  BY <1>0, <1>1, <1>2 DEF x
<1>7. Types'
  BY Zenon, <1>3, <1>5, <1>6 DEF Inv, Types, TypeOK
<1>8. \A b \in Attempts : Res(b)' = Res(b) /\ Done(b)' = Done(b) /\ Value(b)' = Value(b)
  BY Zenon, <1>3 DEF Res, Done, Value
<1>9. WorkFits'
  BY Zenon, <1>3, <1>8, WorkFrame
<1>10. SendersFit'
  <2>1. \A t \in {"loop", "final"} : sender[t].rows \subseteq Attempts
    BY Zenon, <1>0 DEF SenderType
  <2>2. ASSUME NEW t \in {"loop", "final"}
        PROVE  /\ \A b \in sender'[t].rows : Done(b)
               /\ sender'[t].pc # "idle" => sender'[t].row \in Attempts /\ Done(sender'[t].row)
               /\ sender'[t].pc = "acking" => <<sender'[t].row, Value(sender'[t].row)>> \in received'
    <3>1. CASE t = s
      BY Zenon, <1>0, <1>1, <1>2, <1>4, <3>1 DEF Inv, SendersFit, x
    <3>2. CASE t # s
      BY Zenon, <1>2, <1>4, <3>2 DEF Inv, SendersFit
    <3> QED
      BY Zenon, <3>1, <3>2
  <2> QED
    BY Zenon, <1>3, <2>2 DEF SendersFit, Done, Value
<1>11. ReceivedFits'
  <2>1. x[1] = a /\ x[2] = Value(a)
    BY Zenon DEF x
  <2> QED
    BY Zenon, <1>1, <1>2, <1>3, <2>1 DEF Inv, ReceivedFits, Done, Value
<1> QED
  BY Zenon, <1>7, <1>9, <1>10, <1>11 DEF WorkFits, Inv

\* An acknowledged row leaves the outbox; its result was received.
LEMMA AckRowInv ==
    ASSUME Inv, NEW s \in {"loop", "final"}, AckRow(s)
    PROVE  Inv'
<1> DEFINE a == sender[s].row
           p == [pc |-> "idle", rows |-> sender[s].rows \ {a}, row |-> None]
<1>0. /\ sender \in [{"loop", "final"} -> SenderType] /\ sender[s] \in SenderType
      /\ failures \in Nat /\ received \subseteq Attempts \X Results
      /\ JournalInv(journal) /\ sender[s].pc = "acking"
  BY WorkerConstants DEF Inv, Types, TypeOK, AckRow
<1>1. a \in Attempts /\ Done(a) /\ <<a, Value(a)>> \in received
  BY Zenon, <1>0 DEF Inv, SendersFit
<1>2. /\ journal' = mark_acked(journal, a, Now) /\ sender' = [sender EXCEPT ![s] = p]
      /\ UNCHANGED <<session, process, draining, request, thread, stopped>>
      /\ UNCHANGED <<runs, byRun, world>>
  BY Zenon DEF AckRow, RowDone
<1>3. p \in SenderType /\ p.pc = "idle" /\ p.rows \subseteq sender[s].rows
  BY Zenon, <1>0 DEF SenderType
<1> HIDE DEF a, p
<1>4. /\ JournalInv(journal') /\ journal'.reservation = journal.reservation
      /\ \A b \in Attempts \ {a} : journal'.completion[b] = journal.completion[b]
      /\ Unacked(journal, a) => /\ Acked(journal', a)
                                /\ journal'.completion[a].result = journal.completion[a].result
      /\ ~Unacked(journal, a) => journal'.completion[a] = journal.completion[a]
  <2>1. Now \in Nat
    BY Zenon DEF Now
  <2>2. journal' = mark_acked(journal, a, Now) /\ a \in Attempts /\ JournalInv(journal)
    BY Zenon, <1>0, <1>1, <1>2
  <2> QED
    BY <2>1, <2>2, MarkAcked
<1>5. \A b \in Attempts : Res(b)' = Res(b) /\ (Done(b)' <=> Done(b)) /\ Value(b)' = Value(b)
  BY Zenon, <1>4 DEF Res, Done, Value, ReservationState, Unacked, Acked
<1>6. Types'
  BY Zenon, <1>2, <1>3, <1>4, <1>0 DEF Inv, Types, TypeOK, JournalInv, world
<1>7. WorkFits'
  BY Zenon, <1>2, <1>5, WorkFrame DEF world
<1>8. SendersFit'
  <2>1. \A t \in {"loop", "final"} : sender'[t] = IF t = s THEN p ELSE sender[t]
    BY Zenon, <1>0, <1>2
  <2>2. \A t \in {"loop", "final"} : sender[t].rows \subseteq Attempts
    BY Zenon, <1>0 DEF SenderType
  <2> QED
    BY <1>2, <1>3, <1>5, <2>1, <2>2 DEF Inv, SendersFit, world
<1>9. ReceivedFits'
  <2>1. \A b \in Attempts \ {a} : Acked(journal', b) => Acked(journal, b)
    BY Zenon, <1>4 DEF Acked
  <2>2. \A y \in received : y[1] \in Attempts
    BY Zenon, <1>0
  <2> QED
    BY Zenon, <1>1, <1>2, <1>5, <2>1, <2>2 DEF Inv, ReceivedFits, world
<1> QED
  BY Zenon, <1>6, <1>7, <1>8, <1>9 DEF WorkFits, Inv

\* The gate of /agent/run.
LEMMA RunGateInv ==
    ASSUME Inv, NEW q \in Requests, NEW tok \in Tokens, RunGate(q, tok)
    PROVE  Inv'
<1> DEFINE new == [pc |-> IF tok.attempt \in Legacy THEN "admitted" ELSE "gated",
                   token |-> tok]
<1>0. /\ request \in [Requests -> RequestType] /\ failures \in Nat
      /\ request[q].pc = "idle" /\ thread[q].pc = "none" /\ process = "up"
      /\ request' = [request EXCEPT ![q] = new]
      /\ UNCHANGED <<journal, session, process, draining, thread, stopped>>
      /\ UNCHANGED <<runs, byRun, sender, world>>
  BY WorkerConstants DEF Inv, Types, TypeOK, RunGate
<1>1. /\ new \in RequestType /\ new.token = tok
      /\ tok.attempt \in Legacy => new.pc = "admitted"
      /\ tok.attempt \notin Legacy => new.pc = "gated"
      /\ tok.attempt \in Attempts
  BY Zenon DEF RequestType, Tokens
<1> HIDE DEF new
<1>2. \A p \in Requests : request'[p] = IF p = q THEN new ELSE request[p]
  BY Zenon, <1>0
<1>3. \A a \in Attempts : Res(a)' = Res(a) /\ Done(a)' = Done(a) /\ Value(a)' = Value(a)
  BY Zenon, <1>0 DEF Res, Done, Value
<1>4. Types'
  BY Zenon, <1>0, <1>1 DEF Inv, Types, TypeOK, world
<1>5. JournalFits' /\ ThreadsFit' /\ IndexFits' /\ DownIsEmpty'
  BY SMTT(60), <1>0 DEF Inv, JournalFits, ThreadsFit, IndexFits, DownIsEmpty, Keys, Res, Done, world
<1>6. RequestsFit'
  BY Zenon, <1>0, <1>1, <1>2 DEF Inv, RequestsFit, Res, Done, world
<1>7. OneHolder'
  <2>1. tok.attempt \notin Legacy => new.pc # "admitted"
    BY Zenon, <1>1
  <2>2. UNCHANGED thread
    BY Zenon, <1>0
  <2>3. \A p \in Requests, b \in Attempts \ Legacy : Holds(p, b)' => Holds(p, b)
    BY Zenon, <1>1, <1>2, <2>1, <2>2 DEF Holds
  <2> QED
    BY Zenon, <2>3, HolderFrame
<1>8. ActiveIsOwned'
  <2>1. \A p \in Requests : request[p].pc \in {"admitted", "started"} => request'[p] = request[p]
    BY Zenon, <1>0, <1>2
  <2> QED
    BY Zenon, <1>0, <2>1 DEF Inv, ActiveIsOwned, Res, Done, world
<1>9. SendersFit' /\ ReceivedFits'
  BY <1>0, <1>3, DeliveryFrame DEF world
<1> QED
  BY Zenon, <1>4, <1>5, <1>6, <1>7, <1>8, <1>9 DEF Inv

\* The admission: a free attempt is reserved, or the request is answered.
LEMMA RunAdmitInv ==
    ASSUME Inv, NEW q \in Requests, RunAdmit(q)
    PROVE  Inv'
<1>a. PICK tok \in Tokens : request[q].token = tok
  BY Zenon DEF Inv, RequestsFit, RunAdmit
<1> DEFINE a == tok.attempt
<1>0. /\ request \in [Requests -> RequestType] /\ failures \in Nat
      /\ request[q].pc = "gated" /\ a \in Attempts \ Legacy
      /\ thread[q].pc = "none" /\ session \in Nat /\ tok \in TokenType
      /\ JournalInv(journal)
  BY <1>a, WorkerConstants
     DEF Inv, Types, TypeOK, RequestsFit, RunAdmit, Tokens, TokenType, Sessions, Now
<1>1. /\ journal' = validate_and_admit(journal, tok, session, Now)
      /\ UNCHANGED <<session, process, draining, thread, stopped>>
      /\ UNCHANGED <<runs, byRun, sender, world>>
  BY Zenon, <1>a DEF RunAdmit
<1>2. request' = [request EXCEPT ![q] =
         IF AdmissionOutcome(journal, tok, session, Now) = "admitted"
         THEN [request[q] EXCEPT !.pc = "admitted"] ELSE NoRequest]
  BY Zenon, <1>a DEF RunAdmit
<1>3. process # "down"
  BY Zenon, <1>0 DEF Inv, DownIsEmpty
<1> HIDE DEF a
<1>4. /\ JournalInv(journal') /\ journal'.completion = journal.completion
      /\ \/ AdmissionOutcome(journal, tok, session, Now) # "admitted" /\ journal' = journal
         \/ /\ AdmissionOutcome(journal, tok, session, Now) = "admitted"
            /\ journal.reservation[a] = None
            /\ ReservationState(journal', a) = "reserved"
            /\ \A b \in Attempts \ {a} : journal'.reservation[b] = journal.reservation[b]
  <2>1. Now \in Nat
    BY Zenon DEF Now
  <2>2. journal' = validate_and_admit(journal, tok, session, Now) /\ JournalInv(journal)
    BY Zenon, <1>0, <1>1
  <2> QED
    <3>1. Admission(journal, tok, session, Now, journal')
      BY Zenon, <1>0, <2>1, <2>2, ValidateAndAdmit
    <3> QED
      BY Zenon, <3>1 DEF Admission, a
<1>5. \A b \in Attempts : /\ Done(b)' = Done(b) /\ Value(b)' = Value(b)
                          /\ Acked(journal', b) <=> Acked(journal, b)
                          /\ b # a => Res(b)' = Res(b)
  BY Zenon, <1>4 DEF Done, Value, Acked, Res, ReservationState
<1>6. SendersFit' /\ ReceivedFits'
  <2>1. UNCHANGED <<sender, received>> /\ failures' = failures
    BY Zenon, <1>1 DEF world
  <2> QED
    BY <1>0, <1>5, <2>1, DeliveryFrame
<1>7. CASE AdmissionOutcome(journal, tok, session, Now) # "admitted"
  <2>1. journal' = journal /\ request' = [request EXCEPT ![q] = NoRequest]
    BY Zenon, <1>2, <1>4, <1>7
  <2>2. \A p \in Requests : request'[p] = IF p = q THEN NoRequest ELSE request[p]
    BY Zenon, <1>0, <2>1
  <2>3. NoRequest \in RequestType /\ NoRequest.pc = "idle"
    BY Zenon DEF NoRequest, RequestType
  <2>4. Types'
    BY Zenon, <1>0, <1>1, <2>1, <2>3 DEF Inv, Types, TypeOK, world
  <2>5. JournalFits' /\ ThreadsFit' /\ IndexFits' /\ DownIsEmpty'
    <3>1. JournalFits' /\ ThreadsFit'
      BY Zenon, <1>1, <2>1 DEF Inv, JournalFits, ThreadsFit, Keys, Res, Done, world
    <3>2. IndexFits' /\ DownIsEmpty'
      BY Zenon, <1>1, <2>2, <2>3, IndexFrame, DownFrame
    <3> QED
      BY Zenon, <3>1, <3>2
  <2>6. RequestsFit' /\ OneHolder'
    <3>1. RequestsFit
      BY Zenon DEF Inv
    <3>2. UNCHANGED <<journal, thread, started, failures>>
      BY Zenon, <1>1, <2>1 DEF world
    <3>3. RequestsFit'
      BY Zenon, <2>2, <2>3, <3>1, <3>2 DEF RequestsFit, Res, Done
    <3>4. \A p \in Requests, b \in Attempts \ Legacy : Holds(p, b)' => Holds(p, b)
      BY Zenon, <2>2, <2>3, <3>2 DEF Holds
    <3> QED
      BY Zenon, <3>3, <3>4, HolderFrame
  <2>7. ActiveIsOwned'
    <3>1. \A p \in Requests : request[p].pc \in {"admitted", "started"} => request'[p] = request[p]
      BY Zenon, <1>0, <2>2
    <3> QED
      BY Zenon, <1>1, <2>1, <3>1 DEF Inv, ActiveIsOwned, Res, Done, world
  <2> QED
    BY Zenon, <1>6, <2>4, <2>5, <2>6, <2>7 DEF Inv
<1>8. CASE AdmissionOutcome(journal, tok, session, Now) = "admitted"
  <2> DEFINE new == [request[q] EXCEPT !.pc = "admitted"]
  <2>1. new \in RequestType /\ new.pc = "admitted" /\ new.token = tok
    BY Zenon, <1>0, <1>a DEF RequestType
  <2>2. request' = [request EXCEPT ![q] = new]
    BY Zenon, <1>2, <1>8
  <2> HIDE DEF new
  <2>3. \A p \in Requests : request'[p] = IF p = q THEN new ELSE request[p]
    BY Zenon, <1>0, <2>2
  <2>4. Res(a) = "absent" /\ Res(a)' = "reserved"
    BY Zenon, <1>4, <1>8 DEF Res, ReservationState
  <2>5. Types'
    BY Zenon, <1>0, <1>1, <1>4, <2>1, <2>2 DEF Inv, Types, TypeOK, JournalInv, world
  <2>6. JournalFits'
    BY Zenon, <1>0, <1>1, <1>5, <2>4 DEF Inv, JournalFits, world
  <2>7. ThreadsFit'
    <3>1. \A p \in Requests : thread[p].pc # "none" =>
            thread[p].attempt \in Attempts /\ thread[p].attempt # a
      BY Zenon, <1>0, <2>4 DEF Inv, ThreadsFit, Types, TypeOK
    <3> QED
      BY Zenon, <1>1, <1>5, <3>1 DEF Inv, ThreadsFit, Keys, world
  <2>8. IndexFits' /\ DownIsEmpty'
    <3>1. DownIsEmpty'
      BY Zenon, <1>1, <1>3 DEF DownIsEmpty
    <3> QED
      BY Zenon, <1>1, <3>1, IndexFrame
  <2>9. RequestsFit'
    <3>1. a \notin started
      BY Zenon, <1>0, <2>4 DEF Inv, JournalFits
    <3>2. \A p \in Requests : request[p].pc # "idle" => request[p].token.attempt \in Attempts
      BY Zenon DEF Inv, RequestsFit, Tokens
    <3>3. \A p \in Requests : request[p].pc = "admitted" => request[p].token.attempt # a
      BY Zenon, <1>0, <2>4 DEF Inv, RequestsFit
    <3> QED
      BY ZenonT(60), <1>0, <1>1, <1>5, <2>1, <2>3, <2>4, <3>1, <3>2, <3>3 DEF Inv, RequestsFit, a, world
  <2>10. OneHolder'
    <3>1. \A p \in Requests : ~Holds(p, a)
      BY Zenon, <1>0, <2>4 DEF Inv, Holds, RequestsFit, ThreadsFit
    <3>2. \A p \in Requests, b \in Attempts \ Legacy : Holds(p, b)' =>
            Holds(p, b) \/ (p = q /\ b = a)
      BY Zenon, <1>1, <2>1, <2>3 DEF Holds, a
    <3>3. \A p \in Requests : Holds(p, a)' => p = q
      BY Zenon, <1>0, <3>1, <3>2
    <3>4. OneHolder
      BY Zenon DEF Inv
    <3>5. ASSUME NEW b \in Attempts \ Legacy, NEW p \in Requests, NEW p2 \in Requests,
                 Holds(p, b)', Holds(p2, b)'
          PROVE  p = p2
      <4>1. CASE b = a
        BY Zenon, <3>3, <3>5, <4>1
      <4>2. CASE b # a
        <5>1. Holds(p, b) /\ Holds(p2, b)
          BY Zenon, <3>2, <3>5, <4>2
        <5> QED
          BY Zenon, <3>4, <5>1 DEF OneHolder
      <4> QED
        BY Zenon, <4>1, <4>2
    <3> QED
      BY Zenon, <3>5 DEF OneHolder
  <2>11. ActiveIsOwned'
    <3>1. \A p \in Requests : request[p].pc \in {"admitted", "started"} => request'[p] = request[p]
      BY Zenon, <1>0, <2>3
    <3>2. request'[q].pc = "admitted" /\ request'[q].token.attempt = a
      BY Zenon, <2>1, <2>3 DEF a
    <3> QED
      BY Zenon, <1>1, <1>5, <3>1, <3>2 DEF Inv, ActiveIsOwned, world
  <2> QED
    BY Zenon, <1>6, <2>5, <2>6, <2>7, <2>8, <2>9, <2>10, <2>11 DEF Inv
<1> QED
  BY Zenon, <1>7, <1>8

\* The thread of an admitted request: a reserved attempt nobody has started.
LEMMA RunStartInv ==
    ASSUME Inv, NEW q \in Requests, RunStart(q)
    PROVE  Inv'
<1>a. PICK tok \in Tokens : request[q].token = tok
  BY Zenon DEF Inv, RequestsFit, RunStart
<1> DEFINE a == tok.attempt
           newT == [pc |-> "running", attempt |-> a, result |-> None]
           newR == IF a \in Legacy THEN NoRequest ELSE [request[q] EXCEPT !.pc = "started"]
<1>0. /\ request \in [Requests -> RequestType] /\ thread \in [Requests -> ThreadType]
      /\ request[q].pc = "admitted" /\ a \in Attempts /\ failures \in Nat
      /\ thread[q].pc = "none" /\ Types /\ IndexFits
  BY <1>a, WorkerConstants DEF Inv, Types, TypeOK, RequestsFit, RunStart, Tokens
<1>1. /\ add(q, a) /\ thread' = [thread EXCEPT ![q] = newT]
      /\ started' = started \cup {a} /\ request' = [request EXCEPT ![q] = newR]
      /\ UNCHANGED <<journal, session, process, draining, stopped, sender, received>>
      /\ UNCHANGED failures
  BY Zenon, <1>a DEF RunStart
<1>2. /\ newT \in ThreadType /\ newT.pc = "running" /\ newT.attempt = a
      /\ newR \in RequestType
      /\ a \in Legacy => newR.pc = "idle"
      /\ a \notin Legacy => newR.pc = "started" /\ newR.token = tok
  BY Zenon, <1>0, <1>a DEF RequestType, ThreadType, NoRequest
<1>3. a \notin Legacy => /\ Res(a) \in {"reserved", "running", "completed"} /\ a \notin started
                         /\ \A p \in Requests : Holds(p, a) => p = q
  BY Zenon, <1>0, <1>a DEF Inv, RequestsFit, OneHolder, Holds
<1> HIDE DEF a, newT, newR
<1>4. /\ \A p \in Requests : thread'[p] = IF p = q THEN newT ELSE thread[p]
      /\ \A p \in Requests : request'[p] = IF p = q THEN newR ELSE request[p]
  BY Zenon, <1>0, <1>1
<1>5. /\ runs' \in Seq([attempt : Attempts, req : Requests])
      /\ byRun' \in [Runs -> Attempts \cup {None}]
      /\ Keys' = Keys \cup {a} /\ IndexFits'
  BY Zenon, <1>0, <1>1, AddKeeps
<1>6. \A b \in Attempts : /\ Res(b)' = Res(b) /\ Done(b)' = Done(b) /\ Value(b)' = Value(b)
                          /\ Acked(journal', b) = Acked(journal, b)
  BY Zenon, <1>1 DEF Res, Done, Value
<1>7. Types'
  BY Zenon, <1>0, <1>1, <1>2, <1>5 DEF Inv, Types, TypeOK
<1>8. JournalFits'
  BY Zenon, <1>1, <1>3, <1>6 DEF Inv, JournalFits
<1>9. RequestsFit'
  <2>1. \A p \in Requests : request[p].pc # "idle" => request[p].token.attempt \in Attempts
    BY Zenon DEF Inv, RequestsFit, Tokens
  <2>2. \A p \in Requests : p # q /\ request[p].pc = "admitted" => request[p].token.attempt # a
                                \/ a \in Legacy
    BY Zenon, <1>3 DEF Holds
  <2> QED
    BY SMTT(60), <1>1, <1>2, <1>4, <1>6, <2>1, <2>2 DEF Inv, RequestsFit, a
<1>10. ThreadsFit'
  <2>1. \A p \in Requests : thread[p].pc # "none" => thread[p].attempt \in Attempts
    BY Zenon, <1>0, WorkerConstants DEF Inv, ThreadsFit, Types, TypeOK
  <2> QED
    BY Zenon, <1>0, <1>1, <1>2, <1>3, <1>4, <1>5, <1>6, <2>1 DEF Inv, ThreadsFit
<1>11. OneHolder'
  <2>1. \A p \in Requests, b \in Attempts \ Legacy : Holds(p, b)' => Holds(p, b)
    BY Zenon, <1>0, <1>2, <1>4, <1>a DEF Holds, a
  <2> QED
    BY Zenon, <2>1 DEF Inv, OneHolder
<1>12. DownIsEmpty'
  BY Zenon, <1>0, <1>1 DEF Inv, DownIsEmpty
<1>13. ActiveIsOwned'
  <2>1. ASSUME NEW b \in Attempts, NEW p \in Requests,
               \/ request[p].pc \in {"admitted", "started"} /\ request[p].token.attempt = b
               \/ thread[p].pc # "none" /\ thread[p].attempt = b
        PROVE  \/ request'[p].pc \in {"admitted", "started"} /\ request'[p].token.attempt = b
               \/ thread'[p].pc # "none" /\ thread'[p].attempt = b
    BY Zenon, <1>0, <1>2, <1>4, <1>a, <2>1 DEF a
  <2> QED
    BY Zenon, <1>1, <1>6, <2>1 DEF Inv, ActiveIsOwned
<1>14. SendersFit' /\ ReceivedFits'
  BY <1>0, <1>1, <1>6, DeliveryFrame
<1> QED
  BY Zenon, <1>5, <1>7, <1>8, <1>9, <1>10, <1>11, <1>12, <1>13, <1>14 DEF Inv

\* mark_running: the request is over, its thread is there or has reported.
LEMMA RunMarkInv ==
    ASSUME Inv, NEW q \in Requests, RunMark(q)
    PROVE  Inv'
<1>a. PICK tok \in Tokens : request[q].token = tok
  BY Zenon DEF Inv, RequestsFit, RunMark
<1> DEFINE a == tok.attempt
<1>0. /\ request \in [Requests -> RequestType] /\ request[q].pc = "started"
      /\ a \in Attempts /\ failures \in Nat /\ JournalInv(journal)
  BY <1>a, WorkerConstants DEF Inv, Types, TypeOK, RunMark, Tokens
<1>1. /\ journal' = mark_running(journal, a)
      /\ request' = [request EXCEPT ![q] = NoRequest]
      /\ UNCHANGED <<session, process, draining, thread, stopped, runs, byRun>>
      /\ UNCHANGED <<sender, world>>
  BY Zenon, <1>a DEF RunMark
<1> HIDE DEF a
<1>2. /\ JournalInv(journal') /\ journal'.completion = journal.completion
      /\ \A b \in Attempts :
            \/ journal'.reservation[b] = journal.reservation[b]
            \/ /\ ReservationState(journal, b) = "reserved"
               /\ ReservationState(journal', b) = "running"
  <2>1. journal' = mark_running(journal, a) /\ JournalInv(journal)
    BY Zenon, <1>0, <1>1
  <2> QED
    BY <1>0, <2>1, MarkRunningKeeps
<1>3. \A b \in Attempts : /\ Done(b)' = Done(b) /\ Value(b)' = Value(b)
                          /\ Acked(journal', b) <=> Acked(journal, b)
                          /\ Res(b)' = Res(b) \/ (Res(b) = "reserved" /\ Res(b)' = "running")
  BY Zenon, <1>2 DEF Done, Value, Acked, Res, ReservationState
<1>4. NoRequest \in RequestType /\ NoRequest.pc = "idle"
  BY Zenon DEF NoRequest, RequestType
<1>5. \A p \in Requests : request'[p] = IF p = q THEN NoRequest ELSE request[p]
  BY Zenon, <1>0, <1>1
<1>6. Types'
  BY Zenon, <1>0, <1>1, <1>2, <1>4 DEF Inv, Types, TypeOK, JournalInv, world
<1>7. JournalFits' /\ IndexFits' /\ DownIsEmpty'
  <2>1. JournalFits /\ started' = started
    BY Zenon, <1>1 DEF Inv, world
  <2>2. JournalFits'
    BY Zenon, <1>3, <2>1 DEF JournalFits
  <2> QED
    BY Zenon, <1>1, <1>4, <1>5, <2>2, IndexFrame, DownFrame
<1>8. RequestsFit'
  <2>1. \A p \in Requests : request[p].pc # "idle" => request[p].token.attempt \in Attempts
    BY Zenon DEF Inv, RequestsFit, Tokens
  <2> QED
    BY SMTT(60), <1>1, <1>3, <1>4, <1>5, <2>1 DEF Inv, RequestsFit, world
<1>9. ThreadsFit'
  <2>1. \A p \in Requests : thread[p].pc # "none" => thread[p].attempt \in Attempts
    BY Zenon DEF Inv, ThreadsFit, Types, TypeOK
  <2> QED
    BY Zenon, <1>1, <1>3, <2>1 DEF Inv, ThreadsFit, Keys, world
<1>10. OneHolder'
  <2>1. \A p \in Requests, b \in Attempts \ Legacy : Holds(p, b)' => Holds(p, b)
    BY Zenon, <1>1, <1>4, <1>5 DEF Holds
  <2> QED
    BY Zenon, <2>1, HolderFrame
<1>11. ActiveIsOwned'
  <2>1. \/ thread[q].pc # "none" /\ thread[q].attempt = a
        \/ Done(a) \/ failures > 0
    BY Zenon, <1>0, <1>a DEF Inv, RequestsFit, a
  <2>2. ASSUME NEW b \in Attempts, NEW p \in Requests, ~Done(b), failures = 0,
               \/ request[p].pc \in {"admitted", "started"} /\ request[p].token.attempt = b
               \/ thread[p].pc # "none" /\ thread[p].attempt = b
        PROVE  \/ request'[p].pc \in {"admitted", "started"} /\ request'[p].token.attempt = b
               \/ thread'[p].pc # "none" /\ thread'[p].attempt = b
    BY <1>1, <1>5, <1>a, <2>1, <2>2 DEF a
  <2> QED
    BY Zenon, <1>1, <1>3, <2>2 DEF Inv, ActiveIsOwned, world
<1>12. SendersFit' /\ ReceivedFits'
  BY <1>0, <1>1, <1>3, DeliveryFrame DEF world
<1> QED
  BY Zenon, <1>6, <1>7, <1>8, <1>9, <1>10, <1>11, <1>12 DEF Inv

\* A thread that goes on with its attempt keeps the facts about the work.
LEMMA ThreadFrame ==
    ASSUME Inv, NEW q \in Requests, thread[q].pc # "none",
           \A p \in Requests \ {q} : thread'[p] = thread[p],
           thread'[q].pc # "none", thread'[q].attempt = thread[q].attempt,
           thread'[q].pc \in {"returned", "raised"} => thread'[q].result \in Results,
           thread'[q].pc = "leaving" => failures' > 0,
           failures <= failures', failures' \in Nat,
           UNCHANGED <<journal, request, runs, byRun, started, process>>
    PROVE  WorkFits'
<1>0. thread \in [Requests -> ThreadType] /\ failures \in Nat
  BY WorkerConstants DEF Inv, Types, TypeOK
<1>1. JournalFits' /\ IndexFits'
  <2>1. JournalFits'
    BY Zenon DEF Inv, JournalFits, Res, Done
  <2> QED
    BY Zenon, <2>1, IndexFrame
<1>2. RequestsFit'
  BY SMTT(60), <1>0 DEF Inv, RequestsFit, Res, Done
<1>3. ThreadsFit'
  BY <1>0 DEF Inv, ThreadsFit, Keys, Res, Done
<1>4. OneHolder' /\ DownIsEmpty'
  BY <1>0 DEF Inv, OneHolder, Holds, DownIsEmpty
<1>5. ActiveIsOwned'
  BY <1>0 DEF Inv, ActiveIsOwned, Res, Done
<1> QED
  BY Zenon, <1>1, <1>2, <1>3, <1>4, <1>5 DEF WorkFits

\* The executor returns or raises.
LEMMA ThreadEndsInv ==
    ASSUME Inv, NEW q \in Requests,
           (\E result \in Results : ThreadReturns(q, result)) \/ ThreadRaises(q)
    PROVE  Inv'
<1>0. thread \in [Requests -> ThreadType] /\ failures \in Nat
  BY WorkerConstants DEF Inv, Types, TypeOK
<1>a. thread[q].pc = "running"
  BY Zenon DEF ThreadReturns, ThreadRaises
<1>1. /\ UNCHANGED <<journal, session, process, draining, request, stopped, runs>>
      /\ UNCHANGED <<byRun, sender, world>>
  BY Zenon DEF ThreadReturns, ThreadRaises
<1>2. PICK pc \in {"returned", "raised"}, result \in Results :
        thread' = [thread EXCEPT ![q] = [thread[q] EXCEPT !.pc = pc, !.result = result]]
  BY Zenon DEF ThreadReturns, ThreadRaises, Results
<1> DEFINE new == [thread[q] EXCEPT !.pc = pc, !.result = result]
<1>3. /\ new \in ThreadType /\ new.pc = pc /\ new.result = result
      /\ new.attempt = thread[q].attempt
  BY Zenon, <1>0 DEF ThreadType
<1>4. thread' = [thread EXCEPT ![q] = new]
  BY Zenon, <1>2
<1> HIDE DEF new
<1>5. /\ thread' \in [Requests -> ThreadType] /\ thread'[q] = new
      /\ \A p \in Requests \ {q} : thread'[p] = thread[p]
  BY Zenon, <1>0, <1>3, <1>4
<1>6. WorkFits'
  BY <1>0, <1>1, <1>3, <1>5, <1>a, ThreadFrame DEF world
<1>7. Types'
  BY Zenon, <1>1, <1>5 DEF Inv, Types, TypeOK, world
<1>8. SendersFit' /\ ReceivedFits'
  BY <1>0, <1>1, DeliveryFrame DEF world, Done, Value
<1> QED
  BY Zenon, <1>6, <1>7, <1>8 DEF WorkFits, Inv

\* A commit that raises, and the direct post of a legacy run: the result of an
\* authorized run does not pass the journal by.
LEMMA CommitFailsInv ==
    ASSUME Inv, NEW q \in Requests, CommitRaises(q) \/ PostDirectly(q)
    PROVE  Inv'
<1>0. /\ thread \in [Requests -> ThreadType] /\ failures \in Nat
      /\ thread[q].pc \in {"returned", "raised"}
      /\ failures' = failures + 1 /\ failures' \in 0..MaxFailures
      /\ received \subseteq Attempts \X Results
  BY WorkerConstants DEF Inv, Types, TypeOK, CommitRaises, PostDirectly
<1>1. /\ UNCHANGED <<journal, session, process, draining, request, stopped, runs>>
      /\ UNCHANGED <<byRun, sender, started>>
  BY Zenon DEF CommitRaises, PostDirectly
<1>2. thread[q].attempt \in Attempts /\ thread[q].result \in Results
  <2>1. thread[q].attempt \in started
    BY Zenon, <1>0 DEF Inv, ThreadsFit
  <2> QED
    BY Zenon, <1>0, <2>1 DEF Inv, ThreadsFit, Types, TypeOK
<1>3. PICK new \in ThreadType :
        /\ thread' = [thread EXCEPT ![q] = new]
        /\ new.attempt = thread[q].attempt
        /\ \/ new.pc = "raised" /\ new.result \in Results
           \/ new.pc = "leaving"
  <2> DEFINE x == [thread[q] EXCEPT !.pc = "raised", !.result = "error"]
             y == [thread[q] EXCEPT !.pc = "leaving"]
  <2>1. /\ x \in ThreadType /\ x.attempt = thread[q].attempt
        /\ x.pc = "raised" /\ x.result \in Results
    BY Zenon, <1>0 DEF ThreadType, Results
  <2>2. y \in ThreadType /\ y.attempt = thread[q].attempt /\ y.pc = "leaving"
    BY Zenon, <1>0 DEF ThreadType
  <2>3. thread' = [thread EXCEPT ![q] = x] \/ thread' = [thread EXCEPT ![q] = y]
    BY Zenon DEF CommitRaises, PostDirectly
  <2> HIDE DEF x, y
  <2> QED
    BY Zenon, <2>1, <2>2, <2>3
<1>4. /\ thread' \in [Requests -> ThreadType] /\ thread'[q] = new
      /\ \A p \in Requests \ {q} : thread'[p] = thread[p]
  BY Zenon, <1>0, <1>3
<1>a. WorkFits'
  BY <1>0, <1>1, <1>3, <1>4, ThreadFrame
<1>5. \/ received' = received
      \/ /\ thread[q].attempt \in Legacy
         /\ received' = received \cup {<<thread[q].attempt, thread[q].result>>}
  BY Zenon DEF CommitRaises, PostDirectly
<1>6. received' \subseteq Attempts \X Results
  BY <1>0, <1>2, <1>5
<1>7. Types'
  BY Zenon, <1>0, <1>1, <1>4, <1>6 DEF Inv, Types, TypeOK
<1>8. SendersFit'
  BY Zenon, <1>1, <1>5 DEF Inv, SendersFit, Done, Value
<1>9. ReceivedFits'
  BY <1>0, <1>1, <1>5 DEF Inv, ReceivedFits, Done, Value
<1> QED
  BY Zenon, <1>7, <1>8, <1>9, <1>a DEF WorkFits, Inv

\* A completion: the first result of the attempt stands.
LEMMA CommitInv ==
    ASSUME Inv, NEW q \in Requests, CommitCompletion(q)
    PROVE  Inv'
<1>0. /\ thread \in [Requests -> ThreadType] /\ failures \in Nat
      /\ thread[q].pc \in {"returned", "raised"} /\ JournalInv(journal)
  BY WorkerConstants DEF Inv, Types, TypeOK, CommitCompletion
<1>1. PICK a \in Attempts, result \in Results :
        /\ thread[q].attempt = a /\ thread[q].result = result
        /\ a \in started
  <2>1. thread[q].attempt \in started /\ thread[q].result \in Results
    BY Zenon, <1>0 DEF Inv, ThreadsFit
  <2> QED
    BY Zenon, <2>1 DEF Inv, Types, TypeOK
<1> DEFINE new == [thread[q] EXCEPT !.pc = "leaving"]
<1>2. /\ journal' = record_completion_and_enqueue(journal, a, result)
      /\ thread' = [thread EXCEPT ![q] = new]
      /\ UNCHANGED <<session, process, draining, request, stopped, runs>>
      /\ UNCHANGED <<byRun, sender, world>>
  BY Zenon, <1>1 DEF CommitCompletion
<1>3. new \in ThreadType /\ new.pc = "leaving" /\ new.attempt = a
  BY Zenon, <1>0, <1>1 DEF ThreadType
<1> HIDE DEF new
<1>4. \A p \in Requests : thread'[p] = IF p = q THEN new ELSE thread[p]
  BY Zenon, <1>0, <1>2
<1>5. /\ JournalInv(journal')
      /\ journal.completion[a] = None => Unacked(journal', a)
      /\ journal.completion[a] # None => journal'.completion[a] = journal.completion[a]
      /\ \A b \in Attempts \ {a} : /\ journal'.completion[b] = journal.completion[b]
                                   /\ journal'.reservation[b] = journal.reservation[b]
      /\ journal.reservation[a] = None => journal'.reservation[a] = None
      /\ journal.reservation[a] # None => ReservationState(journal', a) = "completed"
  <2>1. Recorded(journal, a, result, journal')
    BY Zenon, <1>0, <1>2, RecordCompletion
  <2> QED
    BY Zenon, <2>1 DEF Recorded
<1>6. /\ Done(a)' /\ (Res(a) = "absent" => Res(a)' = "absent")
      /\ Res(a) # "absent" => Res(a)' = "completed"
  <2>1. Done(a)'
    BY Zenon, <1>5 DEF Done, Unacked
  <2>2. journal.reservation[a] \in ReservationType \cup {None}
    BY Zenon, <1>0 DEF JournalInv, JournalType
  <2>3. Res(a) = "absent" => journal.reservation[a] = None
    BY Zenon, <2>2 DEF Res, ReservationState, ReservationType, ReservationStates
  <2> QED
    BY Zenon, <1>5, <2>1, <2>3 DEF Res, ReservationState
<1>7. \A b \in Attempts : /\ Done(b) => Done(b)' /\ Value(b)' = Value(b)
                          /\ Acked(journal', b) => Acked(journal, b)
                          /\ b # a => Res(b)' = Res(b) /\ Done(b)' = Done(b)
  BY Zenon, <1>5 DEF Done, Value, Acked, Unacked, Res, ReservationState
<1>8. Types'
  BY Zenon, <1>0, <1>2, <1>3, <1>5 DEF Inv, Types, TypeOK, JournalInv, world
<1>9. JournalFits' /\ IndexFits'
  <2>1. JournalFits /\ started' = started
    BY Zenon, <1>2 DEF Inv, world
  <2>2. JournalFits'
    BY Zenon, <1>6, <1>7, <2>1 DEF JournalFits
  <2> QED
    BY Zenon, <1>2, <2>2, IndexFrame
<1>10. RequestsFit'
  <2>1. \A p \in Requests : request[p].pc # "idle" => request[p].token.attempt \in Attempts
    BY Zenon DEF Inv, RequestsFit, Tokens
  <2>2. \A p \in Requests : thread'[p].pc = "none" <=> thread[p].pc = "none"
    BY Zenon, <1>0, <1>3, <1>4
  <2>3. \A p \in Requests : thread'[p].attempt = thread[p].attempt
    BY Zenon, <1>1, <1>3, <1>4
  <2> QED
    BY Zenon, <1>2, <1>6, <1>7, <2>1, <2>2, <2>3 DEF Inv, RequestsFit, world
<1>11. ThreadsFit'
  <2>1. \A p \in Requests : thread[p].pc # "none" => thread[p].attempt \in Attempts
    BY Zenon DEF Inv, ThreadsFit, Types, TypeOK
  <2> QED
    BY <1>0, <1>1, <1>2, <1>3, <1>4, <1>6, <1>7, <2>1 DEF Inv, ThreadsFit, Keys, world
<1>12. OneHolder' /\ DownIsEmpty'
  <2>1. \A p \in Requests, b \in Attempts \ Legacy : Holds(p, b)' => Holds(p, b)
    BY Zenon, <1>0, <1>1, <1>2, <1>3, <1>4 DEF Holds
  <2>2. \A p \in Requests : thread[p].pc = "none" => thread'[p].pc = "none"
    BY Zenon, <1>0, <1>4
  <2>3. \A p \in Requests : request[p].pc = "idle" => request'[p].pc = "idle"
    BY Zenon, <1>2
  <2>4. OneHolder'
    BY Zenon, <2>1, HolderFrame
  <2>5. DownIsEmpty'
    BY Zenon, <1>2, <2>2, <2>3, DownFrame
  <2> QED
    BY Zenon, <2>4, <2>5
<1>13. ActiveIsOwned'
  <2>1. \A p \in Requests : /\ thread'[p].pc = "none" <=> thread[p].pc = "none"
                            /\ thread'[p].attempt = thread[p].attempt
    BY Zenon, <1>0, <1>1, <1>3, <1>4
  <2>2. \A b \in Attempts : Res(b)' \in {"reserved", "running"} /\ ~Done(b)' =>
          Res(b) \in {"reserved", "running"} /\ ~Done(b)
    BY Zenon, <1>6, <1>7
  <2>3. ActiveIsOwned /\ UNCHANGED <<process, failures, request>>
    BY Zenon, <1>2 DEF Inv, world
  <2> QED
    BY Zenon, <2>1, <2>2, <2>3 DEF ActiveIsOwned
<1>14. SendersFit' /\ ReceivedFits'
  BY <1>0, <1>2, <1>7, DeliveryFrame DEF world
<1> QED
  BY Zenon, <1>8, <1>9, <1>10, <1>11, <1>12, <1>13, <1>14 DEF Inv

\* A thread leaves WorkerState; it has reported or failed to.
LEMMA ThreadLeavesInv ==
    ASSUME Inv, NEW q \in Requests, ThreadLeaves(q)
    PROVE  Inv'
<1>0. /\ thread \in [Requests -> ThreadType] /\ failures \in Nat
      /\ thread[q].pc = "leaving" /\ Types /\ IndexFits
  BY SMTT(60), WorkerConstants DEF Inv, Types, TypeOK, ThreadLeaves
<1>1. PICK a \in Attempts : thread[q].attempt = a /\ (Done(a) \/ failures > 0)
  BY Zenon, <1>0 DEF Inv, ThreadsFit, Types, TypeOK
<1>2. /\ remove(a) /\ thread' = [thread EXCEPT ![q] = NoThread]
      /\ stopped' = stopped \ {q}
      /\ UNCHANGED <<journal, session, process, draining, request, sender, world>>
  BY Zenon, <1>1 DEF ThreadLeaves
<1>3. NoThread \in ThreadType /\ NoThread.pc = "none"
  BY Zenon DEF NoThread, ThreadType
<1>4. \A p \in Requests : thread'[p] = IF p = q THEN NoThread ELSE thread[p]
  BY Zenon, <1>0, <1>2
<1>5. /\ runs' \in Seq([attempt : Attempts, req : Requests])
      /\ byRun' \in [Runs -> Attempts \cup {None}]
      /\ Keys' = Keys \ {a} /\ IndexFits'
  BY Zenon, <1>0, <1>2, RemoveKeeps
<1>6. \A b \in Attempts : Res(b)' = Res(b) /\ Done(b)' = Done(b) /\ Value(b)' = Value(b)
  BY Zenon, <1>2 DEF Res, Done, Value
<1>7. Types'
  BY Zenon, <1>0, <1>2, <1>3, <1>5 DEF Inv, Types, TypeOK, world
<1>8. JournalFits' /\ DownIsEmpty'
  <2>1. JournalFits /\ started' = started
    BY Zenon, <1>2 DEF Inv, world
  <2>2. JournalFits'
    BY Zenon, <1>6, <2>1 DEF JournalFits
  <2> QED
    BY Zenon, <1>2, <1>3, <1>4, <2>2, DownFrame
<1>9. RequestsFit'
  <2>1. \A p \in Requests : request[p].pc # "idle" => request[p].token.attempt \in Attempts
    BY Zenon DEF Inv, RequestsFit, Tokens
  <2> QED
    BY Zenon, <1>0, <1>1, <1>2, <1>3, <1>4, <1>6, <2>1 DEF Inv, RequestsFit, world
<1>10. ThreadsFit'
  <2>1. \A p \in Requests : thread[p].pc # "none" => thread[p].attempt \in Attempts
    BY Zenon DEF Inv, ThreadsFit, Types, TypeOK
  <2>2. \A p \in Requests : p # q /\ thread[p].pc # "none" /\ thread[p].attempt = a => a \in Legacy
    BY Zenon, <1>0, <1>1 DEF Inv, OneHolder, Holds
  <2> QED
    BY <1>2, <1>3, <1>4, <1>5, <1>6, <2>1, <2>2 DEF Inv, ThreadsFit, world
<1>11. OneHolder'
  <2>1. \A p \in Requests, b \in Attempts \ Legacy : Holds(p, b)' => Holds(p, b)
    BY Zenon, <1>2, <1>3, <1>4 DEF Holds
  <2> QED
    BY Zenon, <2>1, HolderFrame
<1>12. ActiveIsOwned'
  <2>1. ASSUME NEW b \in Attempts, NEW p \in Requests, ~Done(b), failures = 0,
               \/ request[p].pc \in {"admitted", "started"} /\ request[p].token.attempt = b
               \/ thread[p].pc # "none" /\ thread[p].attempt = b
        PROVE  \/ request'[p].pc \in {"admitted", "started"} /\ request'[p].token.attempt = b
               \/ thread'[p].pc # "none" /\ thread'[p].attempt = b
    <3>1. CASE p # q
      BY Zenon, <1>2, <1>4, <2>1, <3>1
    <3>2. CASE p = q
      <4>1. ~(thread[p].pc # "none" /\ thread[p].attempt = b)
        BY <1>1, <2>1, <3>2
      <4> QED
        BY Zenon, <1>2, <2>1, <4>1
    <3> QED
      BY Zenon, <3>1, <3>2
  <2> SUFFICES ASSUME NEW b \in Attempts, process' # "down", failures' = 0,
                      Res(b)' \in {"reserved", "running"}, ~Done(b)'
               PROVE  \E p \in Requests :
                         \/ request'[p].pc \in {"admitted", "started"} /\ request'[p].token.attempt = b
                         \/ thread'[p].pc # "none" /\ thread'[p].attempt = b
    BY Zenon DEF ActiveIsOwned
  <2>2. Res(b) \in {"reserved", "running"} /\ ~Done(b) /\ process # "down" /\ failures = 0
    BY Zenon, <1>2, <1>6 DEF world
  <2>3. PICK p \in Requests :
           \/ request[p].pc \in {"admitted", "started"} /\ request[p].token.attempt = b
           \/ thread[p].pc # "none" /\ thread[p].attempt = b
    BY Zenon, <2>2 DEF Inv, ActiveIsOwned
  <2> QED
    BY Zenon, <2>1, <2>2, <2>3
<1>13. SendersFit' /\ ReceivedFits'
  BY <1>0, <1>2, <1>6, DeliveryFrame DEF world
<1> QED
  BY Zenon, <1>5, <1>7, <1>8, <1>9, <1>10, <1>11, <1>12, <1>13 DEF Inv

\* The end of the process: its memory is gone.
LEMMA ExitInv == ASSUME Inv, Exit PROVE Inv'
<1>1. /\ process' = "down" /\ draining' = FALSE /\ stopped' = {} /\ runs' = <<>>
      /\ request' = [q \in Requests |-> NoRequest] /\ thread' = [q \in Requests |-> NoThread]
      /\ byRun' = [r \in Runs |-> None] /\ sender' = [s \in {"loop", "final"} |-> NoPass]
      /\ UNCHANGED <<journal, session, world>>
  BY Zenon DEF Exit
<1>2. \A q \in Requests : request'[q].pc = "idle" /\ thread'[q].pc = "none"
  BY Zenon, <1>1 DEF NoRequest, NoThread
<1>3. \A s \in {"loop", "final"} : sender'[s].pc = "idle" /\ sender'[s].rows = {}
  BY Zenon, <1>1 DEF NoPass
<1>4. Types'
  <2>1. /\ request' \in [Requests -> RequestType] /\ thread' \in [Requests -> ThreadType]
        /\ sender' \in [{"loop", "final"} -> SenderType]
    BY Zenon, <1>1 DEF RequestType, ThreadType, SenderType, NoRequest, NoThread, NoPass
  <2>2. /\ runs' \in Seq([attempt : Attempts, req : Requests])
        /\ byRun' \in [Runs -> Attempts \cup {None}]
        /\ process' \in {"up", "stopping", "closing", "down"} /\ stopped' \subseteq Requests
    BY <1>1
  <2>3. draining' \in BOOLEAN
    BY Zenon, <1>1
  <2> QED
    BY Zenon, <1>1, <2>1, <2>2, <2>3 DEF Inv, Types, TypeOK, world
<1>5. JournalFits' /\ ReceivedFits'
  BY Zenon, <1>1 DEF Inv, JournalFits, ReceivedFits, Res, Done, Value, world
<1>6. RequestsFit' /\ ThreadsFit' /\ OneHolder' /\ DownIsEmpty'
  BY Zenon, <1>2 DEF RequestsFit, ThreadsFit, OneHolder, Holds, DownIsEmpty
<1>7. SendersFit'
  BY Zenon, <1>3 DEF SendersFit
<1>8. IndexFits'
  BY <1>1 DEF IndexFits, Keys
<1>9. ActiveIsOwned'
  BY Zenon, <1>1 DEF ActiveIsOwned
<1> QED
  BY Zenon, <1>4, <1>5, <1>6, <1>7, <1>8, <1>9 DEF Inv

\* The next boot interrupts every reservation that was active.
LEMMA BootInv == ASSUME Inv, Boot PROVE Inv'
<1>0. failures \in Nat /\ JournalInv(journal) /\ session \in 1..MaxSession
  BY WorkerConstants DEF Inv, Types, TypeOK, Sessions
<1>1. /\ process = "down" /\ process' = "up"
      /\ session < MaxSession /\ session' = session + 1
      /\ journal' = respool_completions(mark_interrupted_on_boot(journal), Attempts)
      /\ UNCHANGED <<draining, request, thread, stopped, runs, byRun, sender, world>>
  BY Zenon DEF Boot
<1>2. \A q \in Requests : request[q].pc = "idle" /\ thread[q].pc = "none"
  BY Zenon, <1>1 DEF Inv, DownIsEmpty
<1>3. /\ JournalInv(journal') /\ journal'.completion = journal.completion
      /\ \A a \in Attempts : ReservationState(journal', a) =
            IF ReservationState(journal, a) \in {"reserved", "running"}
            THEN "interrupted" ELSE ReservationState(journal, a)
  <2>1. journal' = respool_completions(mark_interrupted_on_boot(journal), Attempts)
    BY Zenon, <1>1
  <2> QED
    BY Zenon, <1>0, <2>1, BootJournal
<1>4. \A a \in Attempts : /\ Done(a)' = Done(a) /\ Value(a)' = Value(a)
                          /\ Acked(journal', a) <=> Acked(journal, a)
                          /\ Res(a)' = IF Res(a) \in {"reserved", "running"}
                                       THEN "interrupted" ELSE Res(a)
  BY Zenon, <1>3 DEF Done, Value, Acked, Res
<1>5. session' \in Sessions
  BY <1>0, <1>1, WorkerConstants DEF Sessions
<1>6. Types'
  BY Zenon, <1>1, <1>3, <1>5 DEF Inv, Types, TypeOK, JournalInv, world
<1>7. JournalFits'
  BY Zenon, <1>1, <1>4 DEF Inv, JournalFits, world
<1>8. RequestsFit' /\ ThreadsFit' /\ OneHolder' /\ DownIsEmpty'
  BY Zenon, <1>1, <1>2 DEF RequestsFit, ThreadsFit, OneHolder, Holds, DownIsEmpty
<1>9. IndexFits'
  BY <1>1 DEF Inv, IndexFits, Keys
<1>10. ActiveIsOwned'
  BY Zenon, <1>4 DEF ActiveIsOwned
<1>11. SendersFit' /\ ReceivedFits'
  BY <1>0, <1>1, <1>4, DeliveryFrame DEF world
<1> QED
  BY Zenon, <1>6, <1>7, <1>8, <1>9, <1>10, <1>11 DEF Inv

\* Every step keeps the invariant.
LEMMA NextInv == Inv /\ [Next]_vars => Inv'
<1> SUFFICES ASSUME Inv, [Next]_vars PROVE Inv'
  BY Zenon
<1>1. CASE UNCHANGED vars
  <2>1. UNCHANGED <<journal, session, process, draining, request, thread, stopped>>
    BY Zenon, <1>1 DEF vars, memory
  <2>2. UNCHANGED <<runs, byRun, sender, started, received, failures>>
    BY Zenon, <1>1 DEF vars, memory, world
  <2>3. \A a \in Attempts : Res(a)' = Res(a) /\ Done(a)' = Done(a) /\ Value(a)' = Value(a)
    BY Zenon, <2>1 DEF Res, Done, Value
  <2>4. Types'
    BY Zenon, <2>1, <2>2 DEF Inv, Types, TypeOK
  <2>5. WorkFits'
    BY Zenon, <2>1, <2>2, <2>3, WorkFrame
  <2>6. SendersFit' /\ ReceivedFits'
    BY Zenon, <2>1, <2>2 DEF Inv, SendersFit, ReceivedFits, Done, Value
  <2> QED
    BY Zenon, <2>4, <2>5, <2>6 DEF WorkFits, Inv
<1>2. ASSUME NEW q \in Requests, Run(q) \/ Thread(q) PROVE Inv'
  <2>1. CASE Run(q)
    BY Zenon, <2>1, RunAdmitInv, RunStartInv, RunMarkInv DEF Run
  <2>2. CASE Thread(q)
    BY Zenon, <2>2, ThreadEndsInv, CommitInv, CommitFailsInv, ThreadLeavesInv DEF Thread
  <2> QED
    BY Zenon, <1>2, <2>1, <2>2
<1>3. ASSUME NEW s \in {"loop", "final"}, Send(s) PROVE Inv'
  BY Zenon, <1>3, PassInv, PostRowInv, AckRowInv DEF Send
<1> QED
  BY Zenon, <1>1, <1>2, <1>3, RunGateInv, StopInv, ExitInv, BootInv DEF Next

\* The invariant holds in every state.
LEMMA Invariant == Spec => []Inv
BY InitInv, NextInv, PTL DEF Spec

-----------------------------------------------------------------------------
(* The manager never receives two different results of an attempt, and     *)
(* what the journal counts as acknowledged was received.                   *)
THEOREM ResultsAlwaysAgree == Spec => []ResultsAgree
<1>1. Inv => ResultsAgree
  <2> SUFFICES ASSUME Inv PROVE ResultsAgree
    BY Zenon
  <2>1. TypeOK /\ received \subseteq Attempts \X Results
    BY Zenon DEF Inv, Types, TypeOK
  <2>2. ASSUME NEW x \in received, NEW y \in received, x[1] = y[1],
               x[1] \in Legacy => failures = 0
        PROVE  x = y
    <3>1. x[2] = Value(x[1]) /\ y[2] = Value(x[1])
      BY Zenon, <2>2 DEF Inv, ReceivedFits
    <3> QED
      BY <2>1, <2>2, <3>1
  <2>3. \A a \in Attempts : Acked(journal, a) => <<a, journal.completion[a].result>> \in received
    BY Zenon DEF Inv, ReceivedFits, Value
  <2> QED
    BY Zenon, <2>1, <2>2, <2>3 DEF ResultsAgree
<1> QED
  BY <1>1, Invariant, PTL

(* An attempt the journal reports as active has a request or a thread.     *)
THEOREM ActiveAttemptsHaveOwners == Spec => []ActiveHasOwner
<1>1. Inv => ActiveHasOwner
  <2> SUFFICES ASSUME Inv, NEW a \in Attempts, process # "down", failures = 0,
                      get_attempt(journal, a) = "active"
               PROVE  \E q \in Requests :
                  \/ request[q].pc \in {"admitted", "started"} /\ request[q].token.attempt = a
                  \/ thread[q].pc # "none" /\ thread[q].attempt = a
    BY Zenon DEF ActiveHasOwner
  <2>1. ~Done(a)
    BY Zenon DEF get_attempt, Done
  <2>2. Res(a) \in {"reserved", "running"}
    <3>1. Res(a) # "active"
      BY Zenon DEF Inv, Types, JournalInv, JournalType, Res, ReservationState,
             ReservationType, ReservationStates
    <3> QED
      BY Zenon, <3>1, <2>1 DEF get_attempt, Done, Res
  <2> QED
    BY Zenon, <2>1, <2>2 DEF Inv, ActiveIsOwned
<1> QED
  BY <1>1, Invariant, PTL

(* /agent/stop finds the run of every authorized thread.                   *)
THEOREM StopFindsEveryRun == Spec => []IndexFindsRun
<1>1. Inv => IndexFindsRun
  <2> SUFFICES ASSUME Inv, NEW q \in Requests, thread[q].pc # "none",
                      thread[q].attempt \notin Legacy
               PROVE  get(RunOf[thread[q].attempt]) # {}
    BY Zenon DEF IndexFindsRun
  <2> DEFINE a == thread[q].attempt
             b == byRun[RunOf[a]]
  <2>1. a \in Attempts /\ a \in Keys
    BY Zenon DEF Inv, ThreadsFit, Types, TypeOK
  <2>2. b \in Keys
    BY Zenon, <2>1, WorkerConstants DEF Inv, IndexFits
  <2>3. PICK i \in DOMAIN runs : runs[i].attempt = b
    BY Zenon, <2>2 DEF Keys
  <2>4. runs[i].req \in get(RunOf[a])
    BY Zenon, <2>3 DEF get
  <2> QED
    BY Zenon, <2>4
<1> QED
  BY <1>1, Invariant, PTL

(* An authorized attempt gets a thread at most once, also across restarts. *)
THEOREM NoSecondThread == Spec => StartedAtMostOnce
<1>1. ASSUME Inv, [Next]_vars, NEW q \in Requests,
             thread[q].pc = "none", thread'[q].pc = "running",
             thread'[q].attempt \notin Legacy
      PROVE  thread'[q].attempt \notin started
  <2>0. thread \in [Requests -> ThreadType]
    BY Zenon, <1>1 DEF Inv, Types, TypeOK
  <2>1. ASSUME NEW p \in Requests, RunStart(p) PROVE thread'[q].attempt \notin started
    <3> DEFINE new == [pc |-> "running", attempt |-> request[p].token.attempt, result |-> None]
    <3>1. thread' = [thread EXCEPT ![p] = new] /\ request[p].pc = "admitted"
      BY Zenon, <2>1 DEF RunStart
    <3>2. p = q
      BY Zenon, <1>1, <2>0, <3>1
    <3>3. thread'[q].attempt = request[p].token.attempt
      BY Zenon, <2>0, <3>1, <3>2
    <3> QED
      BY Zenon, <1>1, <3>1, <3>3 DEF Inv, RequestsFit
  <2>2. ASSUME UNCHANGED thread PROVE FALSE
    BY Zenon, <1>1, <2>2
  <2>3. ASSUME NEW p \in Requests, Thread(p) PROVE FALSE
    <3>1. \A x \in Requests \ {p} : thread'[x] = thread[x]
      BY Zenon, <2>0, <2>3 DEF Thread, ThreadReturns, ThreadRaises, CommitCompletion,
         CommitRaises, PostDirectly, ThreadLeaves
    <3>2. thread[p].pc = "none" => FALSE
      BY Zenon, <2>3 DEF Thread, ThreadReturns, ThreadRaises, CommitCompletion,
         CommitRaises, PostDirectly, ThreadLeaves
    <3> QED
      BY Zenon, <1>1, <3>1, <3>2
  <2>4. CASE UNCHANGED vars
    BY Zenon, <2>2, <2>4 DEF vars, memory
  <2>5. ASSUME NEW p \in Requests, RunAdmit(p) \/ RunMark(p) PROVE FALSE
    BY Zenon, <2>2, <2>5 DEF RunAdmit, RunMark
  <2>6. ASSUME NEW s \in {"loop", "final"}, Send(s) PROVE FALSE
    BY Zenon, <2>2, <2>6 DEF Send, FetchDue, SkipRow, PostRow, AckRow, FailRow
  <2>7. ASSUME NEW p \in Requests, NEW tok \in Tokens, RunGate(p, tok) PROVE FALSE
    BY Zenon, <2>2, <2>7 DEF RunGate
  <2>8. ASSUME \/ \E r \in Runs : Stop(r)
               \/ Drain \/ Shutdown \/ Boot
        PROVE  FALSE
    BY Zenon, <2>2, <2>8 DEF Stop, Drain, Shutdown, Boot
  <2>9. ASSUME Exit PROVE FALSE
    BY Zenon, <1>1, <2>9 DEF Exit, NoThread
  <2> QED
    BY Zenon, <1>1, <2>1, <2>3, <2>4, <2>5, <2>6, <2>7, <2>8, <2>9 DEF Next, Run
<1>2. Inv /\ [Next]_vars =>
        [\A q \in Requests :
          thread[q].pc = "none" /\ thread'[q].pc = "running"
              /\ thread'[q].attempt \notin Legacy
          => thread'[q].attempt \notin started]_vars
  BY Zenon, <1>1
<1> QED
  BY <1>2, Invariant, PTL DEF Spec, StartedAtMostOnce

-----------------------------------------------------------------------------
(* The refinement of AttemptLife.                                          *)

\* The journal is written by five actions only.
LEMMA JournalSteps ==
    ASSUME [Next]_vars
    PROVE  \/ journal' = journal
           \/ \E q \in Requests : RunAdmit(q) \/ RunMark(q) \/ CommitCompletion(q)
           \/ \E s \in {"loop", "final"} : AckRow(s)
           \/ Boot
<1>1. CASE UNCHANGED vars
  BY Zenon, <1>1 DEF vars
<1>2. ASSUME NEW q \in Requests, Thread(q) PROVE journal' = journal \/ CommitCompletion(q)
  BY Zenon, <1>2 DEF Thread, ThreadReturns, ThreadRaises, CommitRaises, PostDirectly, ThreadLeaves
<1>3. ASSUME NEW s \in {"loop", "final"}, Send(s) PROVE journal' = journal \/ AckRow(s)
  BY Zenon, <1>3 DEF Send, FetchDue, SkipRow, PostRow, FailRow
<1>4. ASSUME NEW q \in Requests, Run(q)
      PROVE  journal' = journal \/ RunAdmit(q) \/ RunMark(q)
  BY Zenon, <1>4 DEF Run, RunStart
<1>5. ASSUME NEW q \in Requests, NEW tok \in Tokens, RunGate(q, tok) PROVE journal' = journal
  BY Zenon, <1>5 DEF RunGate
<1>6. ASSUME \/ \E r \in Runs : Stop(r)
             \/ Drain \/ Shutdown \/ Exit
      PROVE  journal' = journal
  BY Zenon, <1>6 DEF Stop, Drain, Shutdown, Exit
<1> QED
  BY Zenon, <1>1, <1>2, <1>3, <1>4, <1>5, <1>6 DEF Next

\* The life of an attempt depends on its own two rows.
LEMMA LifeFrame ==
    ASSUME NEW a \in Attempts, NEW J, NEW K,
           K.completion[a] = J.completion[a],
           \/ J.completion[a] # None
           \/ ReservationState(K, a) = ReservationState(J, a)
    PROVE  LifeIn(K, a) = LifeIn(J, a) /\ OutcomeIn(K, a) = OutcomeIn(J, a)
BY Zenon DEF LifeIn, OutcomeIn, Acked, Unacked

\* When no attempt changes, AttemptLife stutters.
LEMMA LifeStutters ==
    ASSUME \A b \in Attempts : /\ LifeIn(journal', b) = LifeIn(journal, b)
                               /\ OutcomeIn(journal', b) = OutcomeIn(journal, b)
    PROVE  UNCHANGED Life!vars
BY Zenon DEF Life!vars

\* When one attempt changes, AttemptLife moves it.
LEMMA LifeMoves ==
    ASSUME NEW a \in Attempts, NEW to, LifeIn(journal', a) = to,
           \A b \in Attempts \ {a} : LifeIn(journal', b) = LifeIn(journal, b)
    PROVE  Life!Move(a, to)
BY Zenon DEF Life!Move

\* Outcomes that stay, attempt by attempt, stay as a function.
LEMMA OutcomesStay ==
    ASSUME \A b \in Attempts : OutcomeIn(journal', b) = OutcomeIn(journal, b)
    PROVE  UNCHANGED [b \in Attempts |-> OutcomeIn(journal, b)]
BY Zenon

\* An admission accepts the attempt.
LEMMA AdmitStep ==
    ASSUME Inv, NEW q \in Requests, RunAdmit(q)
    PROVE  Life!Next \/ UNCHANGED Life!vars
<1>a. PICK tok \in Tokens : request[q].token = tok
  BY Zenon DEF Inv, RequestsFit, RunAdmit
<1> DEFINE a == tok.attempt
<1>0. /\ a \in Attempts /\ session \in Nat /\ tok \in TokenType /\ Now \in Nat
      /\ JournalInv(journal)
      /\ journal' = validate_and_admit(journal, tok, session, Now)
  BY <1>a, WorkerConstants DEF Inv, Types, TypeOK, RunAdmit, Tokens, TokenType, Sessions, Now
<1> HIDE DEF a
<1>1. /\ journal'.completion = journal.completion
      /\ \/ journal' = journal
         \/ /\ journal.reservation[a] = None
            /\ ReservationState(journal', a) = "reserved"
            /\ \A b \in Attempts \ {a} : journal'.reservation[b] = journal.reservation[b]
  <2>1. Admission(journal, tok, session, Now, journal')
    BY Zenon, <1>0, ValidateAndAdmit
  <2> QED
    BY Zenon, <2>1 DEF Admission, a
<1>2. \A b \in Attempts \ {a} : /\ LifeIn(journal', b) = LifeIn(journal, b)
                                /\ OutcomeIn(journal', b) = OutcomeIn(journal, b)
  BY Zenon, <1>1, LifeFrame DEF ReservationState
<1>3. CASE journal' = journal \/ journal.completion[a] # None
  <2>1. LifeIn(journal', a) = LifeIn(journal, a) /\ OutcomeIn(journal', a) = OutcomeIn(journal, a)
    BY Zenon, <1>0, <1>1, <1>3, LifeFrame
  <2> QED
    BY Zenon, <1>2, <2>1, LifeStutters
<1>4. CASE journal' # journal /\ journal.completion[a] = None
  <2>1. LifeIn(journal, a) = "unknown" /\ LifeIn(journal', a) = "active"
    BY Zenon, <1>1, <1>4 DEF LifeIn, Acked, Unacked, ReservationState
  <2>2. Life!Move(a, "active")
    BY Zenon, <1>0, <1>2, <2>1, LifeMoves
  <2>3. UNCHANGED [b \in Attempts |-> OutcomeIn(journal, b)]
    BY Zenon, <1>1 DEF OutcomeIn
  <2>4. Life!Accept(a)
    BY Zenon, <1>0, <2>1, <2>2, <2>3 DEF Life!Accept
  <2> QED
    BY Zenon, <1>0, <2>4 DEF Life!Next
<1> QED
  BY Zenon, <1>3, <1>4

\* mark_running changes nothing the manager is promised.
LEMMA MarkStep ==
    ASSUME Inv, NEW q \in Requests, RunMark(q)
    PROVE  UNCHANGED Life!vars
<1>a. PICK tok \in Tokens : request[q].token = tok
  BY Zenon DEF Inv, RequestsFit, RunMark
<1> DEFINE a == tok.attempt
<1>0. a \in Attempts /\ JournalInv(journal) /\ journal' = mark_running(journal, a)
  BY Zenon, <1>a DEF Inv, Types, RunMark, Tokens
<1> HIDE DEF a
<1>1. /\ journal'.completion = journal.completion
      /\ \A b \in Attempts :
            \/ journal'.reservation[b] = journal.reservation[b]
            \/ /\ ReservationState(journal, b) = "reserved"
               /\ ReservationState(journal', b) = "running"
  BY <1>0, MarkRunningKeeps
<1>2. ASSUME NEW b \in Attempts
      PROVE  /\ LifeIn(journal', b) = LifeIn(journal, b)
             /\ OutcomeIn(journal', b) = OutcomeIn(journal, b)
  BY Zenon, <1>1 DEF LifeIn, OutcomeIn, Acked, Unacked, ReservationState
<1> QED
  BY Zenon, <1>2, LifeStutters

\* A commit reports the result, unless there is one.
LEMMA CommitStep ==
    ASSUME Inv, NEW q \in Requests, CommitCompletion(q)
    PROVE  Life!Next \/ UNCHANGED Life!vars
<1>1. PICK a \in Attempts, result \in Results :
        /\ thread[q].attempt = a /\ thread[q].result = result
        /\ a \notin Legacy => Res(a) \in {"reserved", "running", "completed"}
  <2>1. /\ thread[q].attempt \in started /\ thread[q].result \in Results
        /\ thread[q].attempt \notin Legacy =>
              Res(thread[q].attempt) \in {"reserved", "running", "completed"}
    BY Zenon DEF Inv, ThreadsFit, CommitCompletion
  <2> QED
    BY Zenon, <2>1 DEF Inv, Types, TypeOK
<1>2. /\ JournalInv(journal)
      /\ journal' = record_completion_and_enqueue(journal, a, result)
  BY Zenon, <1>1 DEF Inv, Types, CommitCompletion
<1>3. /\ journal.completion[a] = None => /\ Unacked(journal', a)
                                         /\ journal'.completion[a].result = result
      /\ journal.completion[a] # None => journal'.completion[a] = journal.completion[a]
      /\ \A b \in Attempts \ {a} : /\ journal'.completion[b] = journal.completion[b]
                                   /\ journal'.reservation[b] = journal.reservation[b]
  <2>1. Recorded(journal, a, result, journal')
    BY Zenon, <1>2, RecordCompletion
  <2> QED
    BY Zenon, <2>1 DEF Recorded
<1>4. \A b \in Attempts \ {a} : /\ LifeIn(journal', b) = LifeIn(journal, b)
                                /\ OutcomeIn(journal', b) = OutcomeIn(journal, b)
  BY Zenon, <1>3, LifeFrame DEF ReservationState
<1>5. CASE journal.completion[a] # None
  <2>1. LifeIn(journal', a) = LifeIn(journal, a) /\ OutcomeIn(journal', a) = OutcomeIn(journal, a)
    BY Zenon, <1>3, <1>5, LifeFrame
  <2> QED
    BY Zenon, <1>4, <2>1, LifeStutters
<1>6. CASE journal.completion[a] = None
  <2>1. LifeIn(journal', a) = "completed" /\ OutcomeIn(journal', a) = result
    BY Zenon, <1>3, <1>6 DEF LifeIn, OutcomeIn, Acked, Unacked
  <2>2. LifeIn(journal, a) = IF a \in Legacy THEN "unknown" ELSE "active"
    BY Zenon, <1>1, <1>6 DEF Inv, JournalFits, LifeIn, Acked, Unacked, Res
  <2>3. Life!Move(a, "completed")
    BY Zenon, <1>4, <2>1, LifeMoves
  <2>4. Life!Report(a, result)
    BY Zenon, <1>4, <2>1, <2>2, <2>3 DEF Life!Report
  <2> QED
    BY Zenon, <2>4 DEF Life!Next
<1> QED
  BY Zenon, <1>5, <1>6

\* mark_acked acknowledges a result, unless it was.
LEMMA AckStep ==
    ASSUME Inv, NEW s \in {"loop", "final"}, AckRow(s)
    PROVE  Life!Next \/ UNCHANGED Life!vars
<1>1. PICK a \in Attempts : sender[s].row = a
  BY Zenon DEF Inv, SendersFit, AckRow
<1>2. JournalInv(journal) /\ journal' = mark_acked(journal, a, Now) /\ Now \in Nat
  BY Zenon, <1>1 DEF Inv, Types, AckRow, Now
<1>3. /\ journal'.reservation = journal.reservation
      /\ \A b \in Attempts \ {a} : journal'.completion[b] = journal.completion[b]
      /\ Unacked(journal, a) => /\ Acked(journal', a)
                                /\ journal'.completion[a].result = journal.completion[a].result
      /\ ~Unacked(journal, a) => journal'.completion[a] = journal.completion[a]
  BY SMTT(60), <1>2, MarkAcked
<1>4. \A b \in Attempts \ {a} : /\ LifeIn(journal', b) = LifeIn(journal, b)
                                /\ OutcomeIn(journal', b) = OutcomeIn(journal, b)
  BY Zenon, <1>3, LifeFrame DEF ReservationState
<1>5. CASE ~Unacked(journal, a)
  <2>1. LifeIn(journal', a) = LifeIn(journal, a) /\ OutcomeIn(journal', a) = OutcomeIn(journal, a)
    BY Zenon, <1>3, <1>5, LifeFrame DEF ReservationState
  <2> QED
    BY Zenon, <1>4, <2>1, LifeStutters
<1>6. CASE Unacked(journal, a)
  <2>1. LifeIn(journal, a) = "completed" /\ LifeIn(journal', a) = "acked"
    BY Zenon, <1>3, <1>6 DEF LifeIn, Acked, Unacked
  <2>2. OutcomeIn(journal', a) = OutcomeIn(journal, a)
    BY Zenon, <1>3, <1>6 DEF OutcomeIn, Acked, Unacked
  <2>3. Life!Move(a, "acked")
    BY Zenon, <1>4, <2>1, LifeMoves
  <2>4. UNCHANGED [b \in Attempts |-> OutcomeIn(journal, b)]
    BY Zenon, <1>4, <2>2, OutcomesStay
  <2>5. Life!Acknowledge(a)
    BY Zenon, <2>1, <2>3, <2>4 DEF Life!Acknowledge
  <2> QED
    BY Zenon, <2>5 DEF Life!Next
<1> QED
  BY Zenon, <1>5, <1>6

\* A boot interrupts what was active.
LEMMA BootStep == ASSUME Inv, Boot PROVE Life!Next
<1>1. /\ JournalInv(journal)
      /\ journal' = respool_completions(mark_interrupted_on_boot(journal), Attempts)
  BY Zenon DEF Inv, Types, Boot
<1>2. /\ journal'.completion = journal.completion
      /\ \A a \in Attempts : ReservationState(journal', a) =
            IF ReservationState(journal, a) \in {"reserved", "running"}
            THEN "interrupted" ELSE ReservationState(journal, a)
  BY Zenon, <1>1, BootJournal
<1>3. \A a \in Attempts : OutcomeIn(journal', a) = OutcomeIn(journal, a)
  BY Zenon, <1>2 DEF OutcomeIn
<1>4. ASSUME NEW a \in Attempts
      PROVE  LifeIn(journal', a) =
                IF LifeIn(journal, a) = "active" THEN "interrupted" ELSE LifeIn(journal, a)
  <2>1. ReservationState(journal, a) \in ReservationStates \cup {"absent"}
    BY Zenon, <1>1, JournalConstants DEF JournalInv, JournalType, ReservationType, ReservationState
  <2>2. ReservationState(journal, a) = "completed" => journal.completion[a] # None
    BY Zenon DEF Inv, JournalFits, Res, Done
  <2> QED
    BY Zenon, <1>2, <2>1, <2>2 DEF LifeIn, Acked, Unacked, ReservationStates
<1>5. Life!Restart
  BY Zenon, <1>3, <1>4, OutcomesStay DEF Life!Restart
<1> QED
  BY Zenon, <1>5 DEF Life!Next

(* The worker implements AttemptLife: an attempt is accepted once, gets one *)
(* result that never changes, is acknowledged after it, and an interrupted *)
(* attempt is never taken up again.                                        *)
THEOREM WorkerImplementsAttemptLife == Spec => KeepsAttemptLife
<1>1. Init => Life!Init
  BY DEF Init, Life!Init, EmptyJournal, LifeIn, OutcomeIn, Acked, Unacked, ReservationState
<1>2. Inv /\ [Next]_vars => [Life!Next]_(Life!vars)
  <2> SUFFICES ASSUME Inv, [Next]_vars PROVE Life!Next \/ UNCHANGED Life!vars
    BY Zenon
  <2>1. CASE journal' = journal
    BY Zenon, <2>1, LifeStutters
  <2> QED
    BY Zenon, <2>1, JournalSteps, AdmitStep, MarkStep, CommitStep, AckStep, BootStep
<1> QED
  BY <1>1, <1>2, Invariant, PTL DEF Spec, KeepsAttemptLife, Life!Spec
=============================================================================
