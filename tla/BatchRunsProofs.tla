-------------------------- MODULE BatchRunsProofs --------------------------
(***************************************************************************)
(* Proofs about BatchRuns for every set of pipelines and runs and every    *)
(* bound.  First the ledger, under every choice of faults: the types, the  *)
(* ownership of guards and the audit.  Then what the workers execute,      *)
(* report and acknowledge, against the ledger and the history: the         *)
(* inductive invariant, how each transaction and each change of the wire   *)
(* and the journals keeps it, the actions, and the theorems, which except  *)
(* for SuccessesAreReal assume that no pipeline is updated or deleted and  *)
(* that every network failure is known to the sender.                      *)
(***************************************************************************)
EXTENDS BatchRuns, WellFoundedInduction, TLAPS

USE DEF mint_attempt_id, RunOf, OwnerOf

-----------------------------------------------------------------------------
(* The operators of ExecutionLedger.                                       *)

Good(L) == L \in LedgerType /\ GuardOwnership(L)

\* The first attempt of a run is an attempt id.
LEMMA FirstAttempt ==
    ASSUME NEW r \in Runs PROVE <<r, 1>> \in AttemptIds
BY LedgerConstants DEF AttemptIds, Ordinals

\* Max of a non-empty set of ordinals (or 0) is one of its elements.
LEMMA MaxIsElement ==
    ASSUME NEW S \in SUBSET (0..MaxOrdinal), S # {}
    PROVE  Max(S) \in S
<1> DEFINE T == {t \in Nat : MaxOrdinal - t \in S}
<1>1. PICK s : s \in S
  BY Zenon
<1>2. MaxOrdinal - (MaxOrdinal - s) = s /\ MaxOrdinal - s \in Nat
  BY <1>1, LedgerConstants
<1>3. MaxOrdinal - s \in T
  BY Zenon, <1>1, <1>2
<1>4. PICK t \in T : \A u \in T : t <= u
  <2> HIDE DEF T
  <2> DEFINE R == OpToRel(<, Nat)
  <2>1. T \subseteq Nat /\ T # {}
    BY Zenon, <1>3 DEF T
  <2>2. PICK t \in T : \A u \in T : ~(<<u, t>> \in R)
    <3> HIDE DEF R
    <3>1. IsWellFoundedOn(R, Nat)
      BY Zenon, NatLessThanWellFounded DEF R
    <3> QED
      BY Zenon, <2>1, <3>1, WFMin
  <2>3. \A m, n \in Nat : m < n => <<m, n>> \in R
    BY Zenon DEF OpToRel
  <2> HIDE DEF R
  <2>4. t \in Nat /\ \A u \in T : u \in Nat /\ ~(u < t)
    BY Zenon, <2>1, <2>2, <2>3
  <2>5. \A u \in T : t <= u
    BY <2>4
  <2> QED
    BY Zenon, <2>2, <2>5
<1>5. \A m \in S : MaxOrdinal - m \in T
  BY LedgerConstants
<1>6. \A m \in S : MaxOrdinal - t >= m
  BY <1>4, <1>5, LedgerConstants
<1> QED
  BY Zenon, <1>4, <1>6 DEF Max

\* _active_attempt_for_run returns an attempt of the run, or None.
LEMMA ActiveAttemptType ==
    ASSUME NEW L, NEW r \in Runs
    PROVE  active_attempt_for_run(L, r) \in AttemptIds \cup {None}
<1>1. CASE ActiveAttempts(L, r) = {}
  BY Zenon, <1>1 DEF active_attempt_for_run
<1>2. CASE ActiveAttempts(L, r) # {}
  <2>1. ActiveAttempts(L, r) \in SUBSET (0..MaxOrdinal)
    BY LedgerConstants DEF ActiveAttempts, Ordinals
  <2>2. Max(ActiveAttempts(L, r)) \in Ordinals
    BY Zenon, <1>2, <2>1, MaxIsElement DEF ActiveAttempts
  <2> QED
    BY Zenon, <1>2, <2>2 DEF active_attempt_for_run, AttemptIds
<1> QED
  BY Zenon, <1>1, <1>2

\* A claim within the bound mints an attempt id.
LEMMA NextAttemptType ==
    ASSUME NEW L, NEW r \in Runs, next_attempt_ordinal(L, r) <= MaxOrdinal
    PROVE  <<r, next_attempt_ordinal(L, r)>> \in AttemptIds
<1> DEFINE S == {0} \cup {n \in Ordinals : L.attempt[<<r, n>>] # "absent"}
<1>1. S \in SUBSET (0..MaxOrdinal) /\ S # {}
  BY LedgerConstants DEF Ordinals
<1>2. Max(S) \in 0..MaxOrdinal
  BY Zenon, <1>1, MaxIsElement
<1>3. next_attempt_ordinal(L, r) = 1 + Max(S)
  BY Zenon DEF next_attempt_ordinal
<1> QED
  BY <1>2, <1>3, LedgerConstants DEF AttemptIds, Ordinals

\* _ensure_run_intent touches only an absent intent.
LEMMA EnsureIntent ==
    ASSUME NEW L, Good(L), NEW r
    PROVE  /\ Good(ensure_run_intent(L, r))
           /\ AuditKept(L, ensure_run_intent(L, r))
BY Zenon DEF Good, LedgerType, GuardOwnership, AuditKept, ensure_run_intent,
       IntentStates, Outcomes

\* claim_run takes a free guard for a new attempt row, or changes nothing.
LEMMA ClaimRun ==
    ASSUME NEW L, Good(L), NEW a \in AttemptIds
    PROVE  /\ Good(claim_run(L, OwnerOf(a), a))
           /\ AuditKept(L, claim_run(L, OwnerOf(a), a))
<1> DEFINE p == OwnerOf(a)
           M == claim_run(L, p, a)
<1>1. CASE ClaimStatus(L, p, a) # "claimed"
  BY Zenon, <1>1 DEF claim_run, AuditKept
<1>2. CASE ClaimStatus(L, p, a) = "claimed"
  <2>1. p \in Pipelines
    BY Zenon, LedgerConstants DEF AttemptIds
  <2>2. L.guard[p] = None /\ L.attempt[a] = "absent"
    BY Zenon, <1>2 DEF ClaimStatus
  <2>3. M = [L EXCEPT !.guard[p] = a, !.attempt[a] = "claimed"]
    BY Zenon, <1>2 DEF claim_run
  <2>4. M \in LedgerType
    <3> HIDE DEF p, M
    <3> QED
      BY Zenon, <2>1, <2>3 DEF Good, LedgerType, AttemptStates, Fenced
  <2>5. GuardOwnership(M)
    BY <2>1, <2>2, <2>3, LedgerConstants
       DEF Good, LedgerType, GuardOwnership, Fenced, NonTerminal
  <2>6. AuditKept(L, M)
    BY Zenon, <2>2, <2>3 DEF AuditKept, Good, LedgerType
  <2> QED
    BY Zenon, <2>4, <2>5, <2>6 DEF Good
<1> QED
  BY Zenon, <1>1, <1>2

\* Moving an attempt between non-terminal states keeps ownership.
LEMMA MoveWithin ==
    ASSUME NEW L, Good(L), NEW a \in AttemptIds,
           NEW from \in SUBSET Fenced, NEW to \in NonTerminal
    PROVE  /\ Good(MoveAttempt(L, a, from, to))
           /\ AuditKept(L, MoveAttempt(L, a, from, to))
BY DEF Good, LedgerType, GuardOwnership, AuditKept, MoveAttempt, NonTerminal,
       Fenced, AttemptStates

\* resolve_intent writes an outcome into an open intent only.
LEMMA ResolveIntent ==
    ASSUME NEW L, Good(L), NEW r, NEW outcome \in Outcomes
    PROVE  /\ Good(resolve_intent(L, r, outcome))
           /\ AuditKept(L, resolve_intent(L, r, outcome))
BY Zenon DEF Good, LedgerType, GuardOwnership, AuditKept, resolve_intent,
       IntentStates, Outcomes

\* The two bulk intent updates of the operator commands.
LEMMA AbortIntents ==
    ASSUME NEW L, Good(L), NEW p
    PROVE  /\ Good(abort_unowned_intents(L, p))
           /\ AuditKept(L, abort_unowned_intents(L, p))
           /\ Good(prune_run_intents(L, p))
           /\ AuditKept(L, prune_run_intents(L, p))
BY Zenon DEF Good, LedgerType, GuardOwnership, AuditKept, abort_unowned_intents,
       prune_run_intents, IntentStates, Outcomes

\* AuditKept is transitive.
LEMMA AuditKeptTrans ==
    ASSUME NEW L, NEW M, NEW N, AuditKept(L, M), AuditKept(M, N)
    PROVE  AuditKept(L, N)
BY Zenon DEF AuditKept

\* _terminalize_attempt: the attempt and the guard go together.
LEMMA TerminalizeAttempt ==
    ASSUME NEW L, Good(L), NEW a \in AttemptIds,
           NEW outcome \in Outcomes \cup {None}
    PROVE  /\ Good(terminalize_attempt(L, a, outcome))
           /\ AuditKept(L, terminalize_attempt(L, a, outcome))
<1> DEFINE p == OwnerOf(a)
           M == [L EXCEPT !.attempt[a] = IF @ \in Fenced THEN "terminal" ELSE @,
                          !.guard[p] = IF @ = a THEN None ELSE @]
<1>1. p \in Pipelines
  BY Zenon, LedgerConstants DEF AttemptIds
<1>2. Good(M) /\ AuditKept(L, M)
  <2>1. M \in LedgerType
    <3> HIDE DEF p
    <3> QED
      BY Zenon, <1>1 DEF Good, LedgerType, AttemptStates
  <2>2. /\ \A q \in Pipelines : M.guard[q] = IF q = p /\ L.guard[q] = a
                                              THEN None ELSE L.guard[q]
        /\ \A b \in AttemptIds : M.attempt[b] =
              IF b = a /\ L.attempt[b] \in Fenced THEN "terminal" ELSE L.attempt[b]
        /\ M.intent = L.intent
    BY Zenon, <1>1 DEF Good, LedgerType
  <2> HIDE DEF M
  <2>3. GuardOwnership(M)
    <3>1. ASSUME NEW q \in Pipelines, M.guard[q] # None
          PROVE  OwnerOf(M.guard[q]) = q /\ M.attempt[M.guard[q]] \in NonTerminal
      <4>1. M.guard[q] = L.guard[q] /\ L.guard[q] \in AttemptIds
        BY Zenon, <2>2, <3>1 DEF Good, LedgerType
      <4>2. OwnerOf(L.guard[q]) = q /\ L.attempt[L.guard[q]] \in NonTerminal
        BY Zenon, <4>1, <3>1 DEF Good, GuardOwnership
      <4>3. L.guard[q] # a
        BY Zenon, <2>2, <3>1, <4>1, <4>2
      <4> QED
        BY Zenon, <2>2, <4>1, <4>2, <4>3
    <3>2. ASSUME NEW b \in AttemptIds, M.attempt[b] \in Fenced
          PROVE  M.guard[OwnerOf(b)] = b
      <4>1. b # a /\ L.attempt[b] \in Fenced
        BY Zenon, <2>2, <3>2 DEF Fenced
      <4>2. L.guard[OwnerOf(b)] = b /\ OwnerOf(b) \in Pipelines
        BY Zenon, <4>1, LedgerConstants DEF Good, GuardOwnership, AttemptIds
      <4> QED
        BY Zenon, <2>2, <4>1, <4>2
    <3> QED
      BY Zenon, <3>1, <3>2 DEF GuardOwnership
  <2>4. AuditKept(L, M)
    BY Zenon, <2>2 DEF AuditKept
  <2> QED
    BY Zenon, <2>1, <2>3, <2>4 DEF Good
<1>3. CASE outcome = None
  <2>1. terminalize_attempt(L, a, outcome) = M
    BY Zenon, <1>1, <1>3 DEF terminalize_attempt, MoveAttempt, release_guard, Good, LedgerType
  <2> QED
    BY Zenon, <1>2, <2>1
<1>4. CASE outcome # None
  <2>1. terminalize_attempt(L, a, outcome) = resolve_intent(M, a[1], outcome)
    BY Zenon, <1>1, <1>4 DEF terminalize_attempt, MoveAttempt, release_guard,
                      resolve_intent, Good, LedgerType
  <2> HIDE DEF M
  <2>2. outcome \in Outcomes
    BY Zenon, <1>4
  <2>3. Good(resolve_intent(M, a[1], outcome)) /\ AuditKept(M, resolve_intent(M, a[1], outcome))
    BY Zenon, <1>2, <2>2, ResolveIntent
  <2> QED
    BY Zenon, <1>2, <2>1, <2>3, AuditKeptTrans
<1> QED
  BY Zenon, <1>3, <1>4

\* _claim_for_dispatch: intent, claim and the dispatch mark.
LEMMA ClaimForDispatch ==
    ASSUME NEW L, Good(L), NEW a \in AttemptIds
    PROVE  LET M == Claim(L, OwnerOf(a), a)
           IN  /\ Good(M) /\ AuditKept(L, M)
               /\ Good(mark_attempt_dispatching(M, a))
               /\ AuditKept(L, mark_attempt_dispatching(M, a))
<1> DEFINE E == ensure_run_intent(L, RunOf(a))
           M == Claim(L, OwnerOf(a), a)
<1>1. Good(E) /\ AuditKept(L, E)
  BY Zenon, EnsureIntent
<1>2. M = claim_run(E, OwnerOf(a), a)
  BY Zenon DEF Claim
<1>3. Good(M) /\ AuditKept(E, M)
  <2> HIDE DEF E, M
  <2> QED
    BY Zenon, <1>1, <1>2, ClaimRun
<1>4. AuditKept(L, M)
  <2> HIDE DEF E, M
  <2> QED
    BY Zenon, <1>1, <1>3, AuditKeptTrans
<1>5. Good(mark_attempt_dispatching(M, a)) /\ AuditKept(M, mark_attempt_dispatching(M, a))
  <2> HIDE DEF M
  <2> QED
    BY Zenon, <1>3, MoveWithin DEF mark_attempt_dispatching, Fenced, NonTerminal
<1> HIDE DEF M
<1>6. AuditKept(L, mark_attempt_dispatching(M, a))
  BY Zenon, <1>4, <1>5, AuditKeptTrans
<1> QED
  BY Zenon, <1>3, <1>4, <1>5, <1>6 DEF M
\* on_attempt_run_complete: the exact attempt, then the run's active one.
LEMMA CompleteLedger ==
    ASSUME NEW L, Good(L), NEW a \in AttemptIds, NEW result \in {"success", "failed"},
           NEW L1, L1 = terminalize_attempt(L, a, result),
           NEW b, b = active_attempt_for_run(L1, RunOf(a))
    PROVE  /\ Good(L1) /\ AuditKept(L, L1)
           /\ b # None => /\ Good(terminalize_attempt(L1, b, result))
                          /\ AuditKept(L, terminalize_attempt(L1, b, result))
<1>1. result \in Outcomes
  BY Zenon DEF Outcomes
<1>2. Good(L1) /\ AuditKept(L, L1)
  BY Zenon, <1>1, TerminalizeAttempt
<1>3. ASSUME b # None
      PROVE  /\ Good(terminalize_attempt(L1, b, result))
             /\ AuditKept(L1, terminalize_attempt(L1, b, result))
  <2>1. b \in AttemptIds
    BY Zenon, <1>3, ActiveAttemptType DEF AttemptIds
  <2> QED
    BY Zenon, <1>1, <1>2, <2>1, TerminalizeAttempt
<1> QED
  BY Zenon, <1>2, <1>3, AuditKeptTrans

-----------------------------------------------------------------------------
(* The inductive invariant of BatchRuns.                                   *)

\* A completion in an outbox carries a result.
OutboxHoldsResults == \A a \in outbox : journal[a] \in {"success", "failed"}

\* What the reconciler thread holds across its network calls.
ReconOK ==
    /\ recon.at \in {"lost", "adopt", "query"} => recon.pipeline \in Pipelines
    /\ recon.at \in {"adopt", "expire", "drain"} => recon.run \in Runs
    /\ recon.at = "drain" => recon.attempt \in AttemptIds

IInv == TypeOK /\ LedgerOwnership /\ OutboxHoldsResults /\ ReconOK

\* What every step does to the ledger.
LedgerStep == Good(ledger') /\ AuditKept(ledger, ledger')

\* The claim phase of a dispatch thread.
LEMMA ClaimPhaseLedger ==
    ASSUME Good(ledger), NEW r \in Runs, NEW origin, ClaimPhase(PipelineOf[r], r, origin)
    PROVE  LedgerStep
<1>1. <<r, 1>> \in AttemptIds
  BY Zenon, FirstAttempt
<1>2. OwnerOf(<<r, 1>>) = PipelineOf[r]
  BY Zenon
<1> QED
  BY <1>1, <1>2, ClaimForDispatch DEF ClaimPhase, LedgerStep

\* Every step keeps the ledger well formed, owned and audited.
LEMMA NextLedger ==
    ASSUME IInv, Next
    PROVE  LedgerStep
<1>0. Good(ledger) /\ AuditKept(ledger, ledger)
  BY Zenon DEF IInv, TypeOK, LedgerOwnership, Good, AuditKept
<1>1. ASSUME UNCHANGED ledger PROVE LedgerStep
  BY Zenon, <1>0, <1>1 DEF LedgerStep
<1>2. CASE OperatorStep
  <2>1. PICK p \in Pipelines : \/ register(p) \/ update(p) \/ delete(p)
                               \/ start_pipeline(p) \/ stop_pipeline(p) \/ restart_pipeline(p)
    BY Zenon, <1>2 DEF OperatorStep
  <2> DEFINE M == abort_unowned_intents(ledger, p)
  <2>2. Good(M) /\ AuditKept(ledger, M)
    BY Zenon, <1>0, AbortIntents
  <2>3. CASE register(p) \/ start_pipeline(p)
    BY Zenon, <1>1, <2>3 DEF register, start_pipeline
  <2>4. CASE update(p) \/ stop_pipeline(p) \/ restart_pipeline(p)
    BY Zenon, <2>2, <2>4 DEF update, stop_pipeline, restart_pipeline, LedgerStep
  <2>5. CASE delete(p)
    <3>1. ledger' = prune_run_intents(M, p)
      BY Zenon, <2>5 DEF delete
    <3> HIDE DEF M
    <3>2. Good(prune_run_intents(M, p)) /\ AuditKept(M, prune_run_intents(M, p))
      BY Zenon, <2>2, AbortIntents
    <3> QED
      BY Zenon, <2>2, <3>1, <3>2, AuditKeptTrans DEF LedgerStep
  <2> QED
    BY Zenon, <2>1, <2>3, <2>4, <2>5
<1>3. CASE TriggerStep
  <2>1. PICK p \in Pipelines : TriggerExisting(p)
           \/ \E r \in Runs : TriggerQueued(p, r) \/ TriggerSubmitted(p, r)
    BY Zenon, <1>3 DEF TriggerStep
  <2>2. CASE TriggerExisting(p)
    BY Zenon, <1>1, <2>2 DEF TriggerExisting, durable
  <2>3. ASSUME NEW r \in Runs, TriggerQueued(p, r) PROVE LedgerStep
    BY Zenon, <1>0, <2>3, EnsureIntent DEF TriggerQueued, enqueue_manual_run, LedgerStep
  <2>4. ASSUME NEW r \in Runs, TriggerSubmitted(p, r) PROVE LedgerStep
    BY Zenon, <1>1, <2>4 DEF TriggerSubmitted, durable
  <2> QED
    BY Zenon, <2>1, <2>2, <2>3, <2>4
<1>4. ASSUME NEW p \in Pipelines, NEW r \in Runs, Fire(p, r)
      PROVE  LedgerStep
  <2>1. PipelineOf[r] = p /\ ClaimPhase(p, r, "scheduled")
    BY Zenon, <1>4 DEF Fire
  <2> QED
    BY Zenon, <1>0, <2>1, ClaimPhaseLedger
<1>5. CASE ThreadStep
  <2>1. PICK r \in Runs :
           \/ StartManual(r) \/ NoCapacityManual(r) \/ FallbackEnqueue(r)
           \/ DispatchFailed(r) \/ FinalizeFailed(r) \/ DispatchAccepted(r)
    BY Zenon, <1>5 DEF ThreadStep
  <2> DEFINE a == <<r, 1>>
  <2>2. a \in AttemptIds
    BY Zenon, FirstAttempt
  <2>3. ASSUME NEW o \in {None, "failed", "aborted"},
               ledger' = terminalize_attempt(ledger, a, o)
        PROVE  LedgerStep
    BY Zenon, <1>0, <2>2, <2>3, TerminalizeAttempt DEF LedgerStep, Outcomes
  <2>4. CASE StartManual(r)
    BY Zenon, <1>0, <1>1, <2>4, ClaimPhaseLedger DEF StartManual
  <2>5. CASE NoCapacityManual(r)
    BY Zenon, <2>3, <2>5 DEF NoCapacityManual
  <2>6. CASE FallbackEnqueue(r)
    BY Zenon, <1>0, <1>1, <2>6, EnsureIntent DEF FallbackEnqueue, enqueue_manual_run, LedgerStep
  <2>7. CASE DispatchFailed(r)
    BY Zenon, <2>3, <2>7 DEF DispatchFailed
  <2>8. CASE FinalizeFailed(r)
    BY Zenon, <1>1, <2>8 DEF FinalizeFailed
  <2>9. CASE DispatchAccepted(r)
    <3>1. ASSUME ledger' = mark_attempt_running(ledger, a) PROVE LedgerStep
      BY Zenon, <1>0, <2>2, <3>1, MoveWithin
         DEF LedgerStep, mark_attempt_running, Fenced, NonTerminal
    <3> QED
      BY Zenon, <1>1, <2>3, <2>9, <3>1 DEF DispatchAccepted
  <2> QED
    BY Zenon, <2>1, <2>4, <2>5, <2>6, <2>7, <2>8, <2>9
<1>6. ASSUME NEW a \in AttemptIds, NEW result \in {"success", "failed"},
             LET L1 == terminalize_attempt(ledger, a, result)
                 b  == active_attempt_for_run(L1, RunOf(a))
             IN  ledger' \in {L1, IF b = None THEN L1
                                  ELSE terminalize_attempt(L1, b, result)}
      PROVE  LedgerStep
  BY Zenon, <1>0, <1>6, CompleteLedger DEF LedgerStep
<1>7. ASSUME NEW a \in AttemptIds, DeliverCompletion(a)
      PROVE  LedgerStep
  <2>1. journal[a] \in {"success", "failed"}
    BY Zenon, <1>7 DEF DeliverCompletion, IInv, OutboxHoldsResults
  <2> QED
    BY Zenon, <1>6, <1>7, <2>1 DEF DeliverCompletion, on_attempt_run_complete,
       on_worker_run_complete
<1>8. CASE ReconStep
  <2>1. ASSUME NEW b \in AttemptIds, NEW o \in Outcomes \cup {None},
               ledger' = terminalize_attempt(ledger, b, o)
        PROVE  LedgerStep
    BY Zenon, <1>0, <2>1, TerminalizeAttempt DEF LedgerStep
  <2>2. ASSUME NEW p \in Pipelines, ReconTracked(p) \/ ReconUntracked(p)
        PROVE  LedgerStep
    BY Zenon, <1>1, <2>2 DEF ReconTracked, ReconUntracked, durable
  <2>3. CASE adopt_active_batch_run \/ MarkLostRead
    BY Zenon, <1>1, <2>3 DEF adopt_active_batch_run, MarkLostRead, durable
  <2>4. CASE MarkLostEvidence
    <3>1. CASE UNCHANGED ledger
      BY Zenon, <1>1, <3>1
    <3>2. CASE ~ UNCHANGED ledger
      <4>1. recon.attempt \in AttemptIds
        BY Zenon, <2>4 DEF MarkLostEvidence, IInv, TypeOK
      <4>2. /\ journal[recon.attempt] \in {"success", "failed"}
            /\ on_attempt_run_complete(recon.attempt, journal[recon.attempt])
        BY Zenon, <2>4, <3>2 DEF MarkLostEvidence
      <4> QED
        BY Zenon, <1>6, <4>1, <4>2 DEF on_attempt_run_complete, on_worker_run_complete
    <3> QED
      BY Zenon, <3>1, <3>2
  <2>5. CASE MarkLostCommit
    <3> DEFINE r == IF recon.run # None THEN recon.run ELSE recon.lease
               b == active_attempt_for_run(ledger, r)
    <3>1. \/ UNCHANGED ledger
          \/ r # None /\ b # None /\ ledger' = terminalize_attempt(ledger, b, "failed")
      BY Zenon, <2>5 DEF MarkLostCommit
    <3>2. r # None => r \in Runs
      BY Zenon DEF IInv, TypeOK
    <3>3. r # None /\ b # None => b \in AttemptIds
      BY Zenon, <3>2, ActiveAttemptType
    <3> HIDE DEF b, r
    <3> QED
      BY Zenon, <1>1, <2>1, <3>1, <3>3 DEF Outcomes
  <2>6. ASSUME NEW r \in Runs, ReconExpired(r)
        PROVE  LedgerStep
    BY Zenon, <1>1, <2>6 DEF ReconExpired, durable
  <2>7. ASSUME NEW r \in Runs, claim_queued_run(r)
        PROVE  LedgerStep
    <3> DEFINE a == NextAttempt(r)
    <3>1. a \in AttemptIds
      BY Zenon, <2>7, NextAttemptType DEF claim_queued_run, NextAttempt, WithinOrdinals
    <3>2. OwnerOf(a) = PipelineOf[r]
      BY Zenon DEF NextAttempt
    <3>3. ledger' = mark_attempt_dispatching(Claim(ledger, PipelineOf[r], a), a)
      BY Zenon, <2>7 DEF claim_queued_run
    <3> HIDE DEF a
    <3> QED
      BY Zenon, <1>0, <3>1, <3>2, <3>3, ClaimForDispatch DEF LedgerStep
  <2>8. CASE expire_queued_run
    BY Zenon, <1>0, <1>1, <2>8, ResolveIntent DEF expire_queued_run, LedgerStep, Outcomes
  <2>9. CASE commit_queued_dispatch \/ revert_queued_claim
    <3> DEFINE b == active_attempt_for_run(ledger, recon.run)
    <3>1. recon.run \in Runs
      BY Zenon, <2>9 DEF commit_queued_dispatch, revert_queued_claim, IInv, ReconOK
    <3>2. b \in AttemptIds \cup {None}
      BY Zenon, <3>1, ActiveAttemptType
    <3>3. \/ UNCHANGED ledger
          \/ b # None /\ ledger' = mark_attempt_running(ledger, b)
          \/ b # None /\ ledger' = terminalize_attempt(ledger, b, None)
          \/ b # None /\ ledger' = terminalize_attempt(ledger, b, "aborted")
      BY Zenon, <2>9 DEF commit_queued_dispatch, revert_queued_claim
    <3> HIDE DEF b
    <3>4. ASSUME b # None, ledger' = mark_attempt_running(ledger, b) PROVE LedgerStep
      BY Zenon, <1>0, <3>2, <3>4, MoveWithin
         DEF LedgerStep, mark_attempt_running, Fenced, NonTerminal
    <3> QED
      BY Zenon, <1>1, <2>1, <3>2, <3>3, <3>4 DEF Outcomes
  <2> QED
    BY Zenon, <1>8, <2>2, <2>3, <2>4, <2>5, <2>6, <2>7, <2>8, <2>9 DEF ReconStep
<1>9. CASE CrashStep
  <2>1. CASE Crash
    BY Zenon, <1>1, <2>1 DEF Crash, durable
  <2>2. ASSUME NEW r \in Runs, CrashInClaim(r) PROVE LedgerStep
    <3>1. <<r, 1>> \in AttemptIds /\ OwnerOf(<<r, 1>>) = PipelineOf[r]
      BY Zenon, FirstAttempt
    <3> QED
      BY Zenon, <1>0, <2>2, <3>1, ClaimForDispatch DEF CrashInClaim, LedgerStep
  <2>3. ASSUME NEW r \in Runs, CrashInQueuedClaim(r) PROVE LedgerStep
    <3> DEFINE a == NextAttempt(r)
    <3>1. a \in AttemptIds
      BY Zenon, <2>3, NextAttemptType DEF CrashInQueuedClaim, NextAttempt, WithinOrdinals
    <3>2. OwnerOf(a) = PipelineOf[r]
      BY Zenon DEF NextAttempt
    <3>3. ledger' \in {ledger, Claim(ledger, PipelineOf[r], a)}
      BY Zenon, <2>3 DEF CrashInQueuedClaim
    <3> HIDE DEF a
    <3> QED
      BY Zenon, <1>0, <3>1, <3>2, <3>3, ClaimForDispatch DEF LedgerStep
  <2>4. ASSUME NEW a \in AttemptIds, CrashInCompletion(a) PROVE LedgerStep
    <3>1. journal[a] \in {"success", "failed"}
      BY Zenon, <2>4 DEF CrashInCompletion, IInv, OutboxHoldsResults
    <3> QED
      BY Zenon, <1>6, <2>4, <3>1 DEF CrashInCompletion
  <2> QED
    BY Zenon, <1>9, <2>1, <2>2, <2>3, <2>4 DEF CrashStep
<1>10. CASE BootStep
  <2>1. CASE BootStart \/ BootLoad
    BY Zenon, <1>1, <2>1 DEF BootStart, BootLoad, durable
  <2>2. ASSUME NEW a \in AttemptIds, BootResolve(a) PROVE LedgerStep
    <3>1. \/ UNCHANGED ledger
          \/ ledger' = mark_attempt_unknown(ledger, a)
          \/ \E o \in Outcomes : ledger' = terminalize_attempt(ledger, a, o)
      BY Zenon, <2>2 DEF BootResolve, Outcomes
    <3>2. ASSUME ledger' = mark_attempt_unknown(ledger, a) PROVE LedgerStep
      BY Zenon, <1>0, <3>2, MoveWithin DEF LedgerStep, mark_attempt_unknown, Fenced, NonTerminal
    <3> QED
      BY Zenon, <1>0, <1>1, <3>1, <3>2, TerminalizeAttempt DEF LedgerStep
  <2> QED
    BY Zenon, <1>10, <2>1, <2>2 DEF BootStep
<1>11. CASE WorkerStep
  BY Zenon, <1>1, <1>11 DEF WorkerStep, WorkerAdmit, WorkerRefuse, WorkerFinish,
                     WorkerRestart, durable
<1> QED
  BY Zenon, <1>2, <1>3, <1>4, <1>5, <1>7, <1>8, <1>9, <1>10, <1>11 DEF Next
\* A recorded result is not overwritten.
HistoryKept == \A r \in Runs : history[r] # "absent" => history'[r] = history[r]

\* The record a thread is left with.
LEMMA ThreadRecords ==
    /\ NewThread \in ThreadType
    /\ [NewThread EXCEPT !.pc = "done"] \in ThreadType
    /\ \A o \in {"scheduled", "manual"}, s \in ThreadStates :
          [pc |-> s, origin |-> o, config |-> "current"] \in ThreadType
    /\ \A t \in ThreadType, s \in ThreadStates : [t EXCEPT !.pc = s] \in ThreadType
    /\ \A t \in ThreadType : [t EXCEPT !.config = "replaced"] \in ThreadType
BY Zenon DEF ThreadType, NewThread, ThreadStates

\* _run_batch's finally clause.
LEMMA ThreadDoneType ==
    ASSUME TypeOK, NEW r \in Runs, ThreadDone(r)
    PROVE  /\ thread' \in [Runs -> ThreadType]
           /\ dispatching' \in [Pipelines -> Runs \cup {None}]
BY Zenon, ThreadRecords DEF TypeOK, ThreadDone

\* _on_run_complete.
LEMMA OnRunCompleteType ==
    ASSUME TypeOK, NEW STATE p, NEW STATE result, p \in Pipelines,
           on_run_complete(p, result)
    PROVE  status' \in [Pipelines -> Statuses] /\ job' \in SUBSET Pipelines
BY Zenon DEF TypeOK, on_run_complete, Schedule, Statuses

\* _finalize_batch_result and save_run.
LEMMA FinalizeType ==
    ASSUME TypeOK, NEW STATE p, NEW STATE r, NEW STATE result,
           p \in Pipelines, result \in {"success", "failed"},
           finalize_batch_result(p, r, result)
    PROVE  /\ status' \in [Pipelines -> Statuses]
           /\ job' \in SUBSET Pipelines
           /\ history' \in [Runs -> HistoryStates]
           /\ HistoryKept
<1>1. CASE ~exists(p)
  BY Zenon, <1>1 DEF TypeOK, finalize_batch_result, HistoryKept
<1>2. CASE exists(p)
  <2>1. history' = save_run(history, r, result) /\ on_run_complete(p, result)
    BY Zenon, <1>2 DEF finalize_batch_result
  <2>2. history' \in [Runs -> HistoryStates] /\ HistoryKept
    BY Zenon, <2>1 DEF TypeOK, save_run, HistoryStates, HistoryKept
  <2>3. status' \in [Pipelines -> Statuses] /\ job' \in SUBSET Pipelines
    BY Zenon, <2>1, OnRunCompleteType
  <2> QED
    BY Zenon, <2>2, <2>3
<1> QED
  BY Zenon, <1>1, <1>2
\* on_attempt_run_complete, apart from the ledger.
LEMMA CompleteType ==
    ASSUME TypeOK, NEW STATE a, NEW STATE result, a \in AttemptIds,
           result \in {"success", "failed"}, on_attempt_run_complete(a, result)
    PROVE  /\ status' \in [Pipelines -> Statuses]
           /\ job' \in SUBSET Pipelines
           /\ history' \in [Runs -> HistoryStates]
           /\ lease' \in [Pipelines -> Runs \cup {None}]
           /\ HistoryKept
<1>1. OwnerOf(a) \in Pipelines /\ RunOf(a) \in Runs
  BY Zenon, LedgerConstants DEF AttemptIds
<1>2. lease' \in [Pipelines -> Runs \cup {None}]
  BY Zenon, <1>1 DEF TypeOK, on_attempt_run_complete, on_worker_run_complete, pop_batch_lease
<1>3. CASE history[RunOf(a)] # "absent"
  BY Zenon, <1>2, <1>3 DEF TypeOK, on_attempt_run_complete, on_worker_run_complete, HistoryKept
<1>4. CASE history[RunOf(a)] = "absent"
  <2>1. finalize_batch_result(OwnerOf(a), RunOf(a), result)
    BY Zenon, <1>4 DEF on_attempt_run_complete, on_worker_run_complete
  <2> QED
    BY Zenon, <1>1, <1>2, <2>1, FinalizeType
<1> QED
  BY Zenon, <1>3, <1>4

\* The claim phase, apart from the ledger.
LEMMA ClaimPhaseType ==
    ASSUME TypeOK, NEW p \in Pipelines, NEW r \in Runs,
           NEW origin \in {"scheduled", "manual"}, ClaimPhase(p, r, origin)
    PROVE  /\ status' \in [Pipelines -> Statuses]
           /\ thread' \in [Runs -> ThreadType]
           /\ dispatching' \in [Pipelines -> Runs \cup {None}]
           /\ wire' \in SUBSET AttemptIds
           /\ history' \in [Runs -> HistoryStates]
           /\ HistoryKept
<1>1. <<r, 1>> \in AttemptIds
  BY Zenon, FirstAttempt
<1>2. status' \in [Pipelines -> Statuses]
  BY Zenon DEF TypeOK, ClaimPhase, Statuses
<1>3. CASE CanClaim(ledger, p, <<r, 1>>)
  <2>1. thread' \in [Runs -> ThreadType]
    BY Zenon, <1>3, ThreadRecords DEF TypeOK, ClaimPhase, ThreadStates
  <2> QED
    BY Zenon, <1>1, <1>2, <1>3, <2>1 DEF TypeOK, ClaimPhase, HistoryKept
<1>4. CASE ~CanClaim(ledger, p, <<r, 1>>)
  <2>1. /\ ThreadDone(r) /\ UNCHANGED wire
        /\ history' = IF origin = "manual" THEN save_run(history, r, "failed")
                      ELSE history
    BY Zenon, <1>4 DEF ClaimPhase
  <2>2. history' \in [Runs -> HistoryStates] /\ HistoryKept
    BY Zenon, <2>1 DEF TypeOK, save_run, HistoryStates, HistoryKept
  <2> QED
    BY Zenon, <1>2, <2>1, <2>2, ThreadDoneType DEF TypeOK
<1> QED
  BY Zenon, <1>3, <1>4
\* The other conjuncts of the invariant, and the history.
RestKept == TypeOK' /\ OutboxHoldsResults' /\ ReconOK' /\ HistoryKept

\* Every step keeps them.
LEMMA NextRest ==
    ASSUME IInv, Next, ledger' \in LedgerType
    PROVE  RestKept
<1> USE DEF RestKept, OutboxHoldsResults, ReconOK, durable, world
<1>0. TypeOK /\ OutboxHoldsResults /\ ReconOK
  BY Zenon DEF IInv
<1>1. ASSUME NEW p \in Pipelines,
             \/ register(p) \/ update(p) \/ delete(p)
             \/ start_pipeline(p) \/ stop_pipeline(p) \/ restart_pipeline(p)
      PROVE  RestKept
  <2>1. CASE register(p) \/ start_pipeline(p)
    BY Zenon, <1>0, <2>1 DEF register, start_pipeline, Schedule, TypeOK, Statuses, HistoryKept
  <2>2. CASE update(p) \/ delete(p) \/ stop_pipeline(p) \/ restart_pipeline(p)
    <3>1. queued' \in [Runs -> QueueStates]
      BY Zenon, <1>0, <2>2 DEF update, delete, stop_pipeline, restart_pipeline,
                        cancel_pipeline_queued, TypeOK, QueueStates
    <3>2. thread' \in [Runs -> ThreadType]
      <4>1. StaleThreads(p) \in [Runs -> ThreadType]
        BY Zenon, <1>0 DEF StaleThreads, TypeOK, ThreadType
      <4> QED
        BY Zenon, <1>0, <2>2, <4>1 DEF update, delete, stop_pipeline, restart_pipeline, TypeOK
    <3> QED
      BY Zenon, <1>0, <2>2, <3>1, <3>2
         DEF update, delete, stop_pipeline, restart_pipeline, Schedule, TypeOK,
             Statuses, HistoryKept
  <2> QED
    BY Zenon, <1>1, <2>1, <2>2
<1>2. ASSUME NEW p \in Pipelines, TriggerExisting(p)
      PROVE  RestKept
  BY Zenon, <1>0, <1>2 DEF TriggerExisting, TypeOK, Statuses, HistoryKept
<1>3. ASSUME NEW p \in Pipelines, NEW r \in Runs,
             TriggerQueued(p, r) \/ TriggerSubmitted(p, r)
      PROVE  RestKept
  <2>1. thread' \in [Runs -> ThreadType]
    <3>1. CASE TriggerQueued(p, r)
      <4>1. thread' = [thread EXCEPT ![r].pc = "done"] /\ thread \in [Runs -> ThreadType]
        BY Zenon, <1>0, <3>1 DEF TriggerQueued, TypeOK
      <4> QED
        BY Zenon, <4>1, ThreadRecords DEF ThreadStates
    <3>2. CASE TriggerSubmitted(p, r)
      BY Zenon, <1>0, <3>2, ThreadRecords DEF TriggerSubmitted, TypeOK, ThreadStates
    <3> QED
      BY Zenon, <1>3, <3>1, <3>2
  <2> QED
    BY Zenon, <1>0, <1>3, <2>1 DEF TriggerQueued, TriggerSubmitted, enqueue_manual_run,
                            TypeOK, Statuses, QueueStates, HistoryKept
<1>4. ASSUME NEW p \in Pipelines, NEW r \in Runs, Fire(p, r)
      PROVE  RestKept
  <2>1. ClaimPhase(p, r, "scheduled")
    BY Zenon, <1>4 DEF Fire
  <2> QED
    BY Zenon, <1>0, <1>4, <2>1, ClaimPhaseType DEF Fire, TypeOK
<1>5. ASSUME NEW r \in Runs, StartManual(r)
      PROVE  RestKept
  <2>1. PipelineOf[r] \in Pipelines
    BY Zenon, LedgerConstants
  <2>2. CASE ClaimPhase(PipelineOf[r], r, "manual") /\ UNCHANGED job
    BY Zenon, <1>0, <1>5, <2>1, <2>2, ClaimPhaseType DEF StartManual, TypeOK
  <2>3. CASE ThreadDone(r) /\ UNCHANGED <<ledger, status, wire>>
             /\ job' \in {job, job \ {PipelineOf[r]}}
             /\ history' \in {history, save_run(history, r, "failed")}
    <3>1. history' \in [Runs -> HistoryStates] /\ HistoryKept
      BY Zenon, <1>0, <2>3 DEF TypeOK, save_run, HistoryStates, HistoryKept
    <3> QED
      BY Zenon, <1>0, <1>5, <2>3, <3>1, ThreadDoneType DEF StartManual, TypeOK
  <2> QED
    BY Zenon, <1>5, <2>2, <2>3 DEF StartManual
<1>6. ASSUME NEW r \in Runs, NoCapacityManual(r) \/ DispatchFailed(r)
      PROVE  RestKept
  <2>1. thread' \in [Runs -> ThreadType]
    BY <1>0, <1>6 DEF NoCapacityManual, DispatchFailed, TypeOK, ThreadType, ThreadStates
  <2> QED
    BY Zenon, <1>0, <1>6, <2>1 DEF NoCapacityManual, DispatchFailed, NotAccepted, TypeOK, HistoryKept
<1>7. ASSUME NEW r \in Runs, FallbackEnqueue(r)
      PROVE  RestKept
  <2>1. ThreadDone(r)
    BY Zenon, <1>7 DEF FallbackEnqueue
  <2>2. /\ queued' \in [Runs -> QueueStates]
        /\ status' \in [Pipelines -> Statuses]
        /\ history' \in [Runs -> HistoryStates] /\ HistoryKept
    <3>1. /\ queued \in [Runs -> QueueStates] /\ status \in [Pipelines -> Statuses]
          /\ history \in [Runs -> HistoryStates]
      BY Zenon, <1>0 DEF TypeOK
    <3>2. queued' \in [Runs -> QueueStates] /\ status' \in [Pipelines -> Statuses]
      BY Zenon, <1>7, <3>1 DEF FallbackEnqueue, enqueue_manual_run, QueueStates, Statuses
    <3>3. history' = history \/ history' = save_run(history, r, "failed")
      BY Zenon, <1>7 DEF FallbackEnqueue
    <3>4. history' \in [Runs -> HistoryStates] /\ HistoryKept
      BY Zenon, <3>1, <3>3 DEF save_run, HistoryStates, HistoryKept
    <3> QED
      BY Zenon, <3>2, <3>4
  <2> QED
    BY Zenon, <1>0, <1>7, <2>1, <2>2, ThreadDoneType DEF FallbackEnqueue, TypeOK
<1>8. ASSUME NEW r \in Runs, FinalizeFailed(r)
      PROVE  RestKept
  <2>1. ThreadDone(r) /\ finalize_batch_result(PipelineOf[r], r, "failed")
    BY Zenon, <1>8 DEF FinalizeFailed
  <2>2. PipelineOf[r] \in Pipelines
    BY Zenon, LedgerConstants
  <2> QED
    BY Zenon, <1>0, <1>8, <2>1, <2>2, ThreadDoneType, FinalizeType DEF FinalizeFailed, TypeOK
<1>9. ASSUME NEW r \in Runs, DispatchAccepted(r)
      PROVE  RestKept
  <2>1. ThreadDone(r)
    BY Zenon, <1>9 DEF DispatchAccepted
  <2>2. lease' \in [Pipelines -> Runs \cup {None}]
    BY Zenon, <1>0, <1>9 DEF DispatchAccepted, TypeOK
  <2> QED
    BY Zenon, <1>0, <1>9, <2>1, <2>2, ThreadDoneType DEF DispatchAccepted, TypeOK, HistoryKept
<1>10. ASSUME NEW a \in AttemptIds, DeliverCompletion(a)
       PROVE  RestKept
  <2>1. journal[a] \in {"success", "failed"} /\ on_attempt_run_complete(a, journal[a])
    BY Zenon, <1>0, <1>10 DEF DeliverCompletion
  <2> QED
    BY Zenon, <1>0, <1>10, <2>1, CompleteType DEF DeliverCompletion, TypeOK
<1>11. ASSUME NEW p \in Pipelines, ReconTracked(p) \/ ReconUntracked(p)
       PROVE  RestKept
  <2>1. ASSUME ReconTracked(p) PROVE lease[p] \in Runs
    BY Zenon, <1>0, <2>1 DEF ReconTracked, TypeOK
  <2> QED
    BY Zenon, <1>0, <1>11, <2>1 DEF ReconTracked, ReconUntracked, RunsOf, Idle, TypeOK, HistoryKept
<1>12. CASE adopt_active_batch_run
  BY Zenon, <1>0, <1>12 DEF adopt_active_batch_run, Idle, TypeOK, Statuses, HistoryKept
<1>13. CASE MarkLostRead
  <2>1. lease[recon.pipeline] \in Runs \cup {None}
    BY Zenon, <1>0, <1>13 DEF MarkLostRead, TypeOK
  <2>2. lease[recon.pipeline] # None =>
          active_attempt_for_run(ledger, lease[recon.pipeline]) \in AttemptIds \cup {None}
    BY Zenon, <2>1, ActiveAttemptType
  <2> QED
    BY Zenon, <1>0, <1>13, <2>1, <2>2 DEF MarkLostRead, Idle, TypeOK, HistoryKept
<1>14. CASE MarkLostEvidence
  <2>1. recon.attempt \in AttemptIds
    BY Zenon, <1>0, <1>14 DEF MarkLostEvidence, TypeOK
  <2>2. CASE UNCHANGED <<ledger, history, status, job, lease>>
    BY Zenon, <1>0, <1>14, <2>2 DEF MarkLostEvidence, Idle, TypeOK, HistoryKept
  <2>3. CASE /\ journal[recon.attempt] \in {"success", "failed"}
             /\ on_attempt_run_complete(recon.attempt, journal[recon.attempt])
    BY Zenon, <1>0, <1>14, <2>1, <2>3, CompleteType DEF MarkLostEvidence, Idle, TypeOK
  <2> QED
    BY Zenon, <1>14, <2>2, <2>3 DEF MarkLostEvidence
<1>15. CASE MarkLostCommit
  <2> DEFINE p == recon.pipeline
             r == IF recon.run # None THEN recon.run ELSE recon.lease
  <2>1. p \in Pipelines
    BY Zenon, <1>0, <1>15 DEF MarkLostCommit
  <2>2. lease' \in [Pipelines -> Runs \cup {None}]
    BY Zenon, <1>0, <1>15 DEF MarkLostCommit, TypeOK
  <2>3. \/ UNCHANGED <<history, status, job>>
        \/ on_run_complete(p, "failed") /\ UNCHANGED history
        \/ finalize_batch_result(p, r, "failed")
    BY Zenon, <1>15 DEF MarkLostCommit
  <2>4. /\ status' \in [Pipelines -> Statuses] /\ job' \in SUBSET Pipelines
        /\ history' \in [Runs -> HistoryStates] /\ HistoryKept
    <3>1. CASE UNCHANGED <<history, status, job>>
      BY Zenon, <1>0, <3>1 DEF TypeOK, HistoryKept
    <3>2. CASE on_run_complete(p, "failed") /\ UNCHANGED history
      BY Zenon, <1>0, <2>1, <3>2, OnRunCompleteType DEF TypeOK, HistoryKept
    <3>3. CASE finalize_batch_result(p, r, "failed")
      BY Zenon, <1>0, <2>1, <3>3, FinalizeType
    <3> QED
      BY Zenon, <2>3, <3>1, <3>2, <3>3
  <2> QED
    BY Zenon, <1>0, <1>15, <2>2, <2>4 DEF MarkLostCommit, Idle, TypeOK
<1>16. ASSUME NEW r \in Runs, ReconExpired(r)
       PROVE  RestKept
  BY Zenon, <1>0, <1>16 DEF ReconExpired, Idle, TypeOK, HistoryKept
<1>17. ASSUME NEW r \in Runs, claim_queued_run(r)
       PROVE  RestKept
  <2>1. NextAttempt(r) \in AttemptIds
    BY Zenon, <1>17, NextAttemptType DEF claim_queued_run, NextAttempt, WithinOrdinals
  <2> QED
    BY Zenon, <1>0, <1>17, <2>1 DEF claim_queued_run, Idle, TypeOK, QueueStates, HistoryKept
<1>18. CASE expire_queued_run
  <2>1. PipelineOf[recon.run] \in Pipelines
    BY Zenon, <1>0, <1>18, LedgerConstants DEF expire_queued_run
  <2>2. queued' \in [Runs -> QueueStates]
    BY Zenon, <1>0, <1>18 DEF expire_queued_run, TypeOK, QueueStates
  <2>3. CASE finalize_batch_result(PipelineOf[recon.run], recon.run, "failed")
    BY Zenon, <1>0, <1>18, <2>1, <2>2, <2>3, FinalizeType DEF expire_queued_run, Idle, TypeOK
  <2>4. CASE UNCHANGED <<queued, ledger, history, status, job>>
    BY Zenon, <1>0, <1>18, <2>4 DEF expire_queued_run, Idle, TypeOK, HistoryKept
  <2> QED
    BY Zenon, <1>18, <2>3, <2>4 DEF expire_queued_run
<1>19. CASE commit_queued_dispatch \/ revert_queued_claim
  <2>1. recon.run \in Runs /\ recon.attempt \in AttemptIds
    BY Zenon, <1>0, <1>19 DEF commit_queued_dispatch, revert_queued_claim
  <2>2. queued' \in [Runs -> QueueStates]
    BY Zenon, <1>0, <1>19, <2>1 DEF commit_queued_dispatch, revert_queued_claim, TypeOK, QueueStates
  <2>3. lease' \in [Pipelines -> Runs \cup {None}] /\ status' \in [Pipelines -> Statuses]
    BY Zenon, <1>0, <1>19, <2>1, LedgerConstants
       DEF commit_queued_dispatch, revert_queued_claim, TypeOK, Statuses
  <2>4. wire' \in SUBSET AttemptIds
    BY Zenon, <1>0, <1>19, <2>1
       DEF commit_queued_dispatch, revert_queued_claim, NotAccepted, TypeOK
  <2>5. recon' = Idle /\ UNCHANGED <<history, registered, stopFlag, manager, todo, job,
                                     dispatching, thread, journal, outbox, accepted>>
    BY Zenon, <1>19 DEF commit_queued_dispatch, revert_queued_claim
  <2> QED
    BY Zenon, <1>0, <2>2, <2>3, <2>4, <2>5 DEF Idle, TypeOK, HistoryKept
<1>20. ASSUME NEW used, MemoryLost(used)
       PROVE  /\ manager' = "down" /\ todo' = {} /\ job' = {} /\ recon' = Idle
              /\ status' \in [Pipelines -> Statuses]
              /\ lease' \in [Pipelines -> Runs \cup {None}]
              /\ dispatching' \in [Pipelines -> Runs \cup {None}]
              /\ thread' \in [Runs -> ThreadType]
  BY Zenon, <1>20, ThreadRecords DEF MemoryLost, Statuses
<1>21. CASE CrashStep
  <2>1. PICK used : MemoryLost(used)
    BY Zenon, <1>21 DEF CrashStep, Crash, CrashInClaim, CrashInQueuedClaim, CrashInCompletion
  <2>2. queued' \in [Runs -> QueueStates] /\ UNCHANGED <<history, registered, stopFlag,
                                                         world, accepted>>
    BY Zenon, <1>0, <1>21 DEF CrashStep, Crash, CrashInClaim, CrashInQueuedClaim,
                       CrashInCompletion, TypeOK, QueueStates
  <2> QED
    BY <1>0, <1>20, <2>1, <2>2 DEF Idle, TypeOK, HistoryKept
<1>22. CASE BootStart \/ BootLoad
  BY <1>0, <1>22 DEF BootStart, BootLoad, TypeOK, QueueStates, Statuses, HistoryKept
<1>23. ASSUME NEW a \in AttemptIds, BootResolve(a)
       PROVE  RestKept
  <2>1. RunOf(a) \in Runs /\ OwnerOf(a) \in Pipelines
    BY Zenon, LedgerConstants DEF AttemptIds
  <2>2. cancel_queued_run(RunOf(a)) \in [Runs -> QueueStates]
    BY Zenon, <1>0 DEF cancel_queued_run, TypeOK, QueueStates
  <2>3. queued' \in [Runs -> QueueStates] /\ lease' \in [Pipelines -> Runs \cup {None}]
    BY Zenon, <1>0, <1>23, <2>1, <2>2 DEF BootResolve, TypeOK
  <2>4. history' \in [Runs -> HistoryStates] /\ HistoryKept
    BY <1>0, <1>23 DEF BootResolve, TypeOK, save_run, HistoryStates, HistoryKept
  <2> QED
    BY Zenon, <1>0, <1>23, <2>3, <2>4 DEF BootResolve, TypeOK
<1>24. CASE WorkerStep
  BY <1>0, <1>24 DEF WorkerStep, WorkerAdmit, WorkerRefuse, WorkerFinish,
                     WorkerRestart, memory, TypeOK, JournalStates, HistoryKept
<1> QED
  BY Zenon, <1>1, <1>2, <1>3, <1>4, <1>5, <1>6, <1>7, <1>8, <1>9, <1>10, <1>11, <1>12,
     <1>13, <1>14, <1>15, <1>16, <1>17, <1>18, <1>19, <1>21, <1>22, <1>23, <1>24
     DEF Next, OperatorStep, TriggerStep, ThreadStep, ReconStep, BootStep

-----------------------------------------------------------------------------
\* The invariant holds initially.
LEMMA InitInv == Init => IInv
BY LedgerConstants, ThreadRecords
   DEF Init, IInv, TypeOK, LedgerOwnership, GuardOwnership, EmptyLedger, LedgerType,
       OutboxHoldsResults, ReconOK, Idle, AttemptStates, IntentStates, Fenced,
       QueueStates, HistoryStates, Statuses, JournalStates

\* Every step, and stuttering, keeps it.
LEMMA NextInv == IInv /\ [Next]_vars => IInv' /\ AuditKept(ledger, ledger') /\ HistoryKept
<1> SUFFICES ASSUME IInv, [Next]_vars
             PROVE  IInv' /\ AuditKept(ledger, ledger') /\ HistoryKept
  BY Zenon
<1>1. CASE Next
  <2>1. LedgerStep
    BY Zenon, <1>1, NextLedger
  <2>2. RestKept
    BY Zenon, <1>1, <2>1, NextRest DEF LedgerStep, Good
  <2> QED
    BY Zenon, <2>1, <2>2 DEF LedgerStep, Good, RestKept, IInv, LedgerOwnership
<1>2. CASE UNCHANGED vars
  BY Zenon, <1>2 DEF vars, durable, memory, world, IInv, TypeOK, LedgerOwnership,
              OutboxHoldsResults, ReconOK, AuditKept, HistoryKept
<1> QED
  BY Zenon, <1>1, <1>2

(* Whatever the pipelines, runs, bounds and faults, the state stays within *)
(* its types: no handler, crash or boot step leaves a row, a lease or a    *)
(* thread in a state the others do not know.                               *)
THEOREM TypeCorrect == Spec => []TypeOK
<1>1. IInv => TypeOK
  BY Zenon DEF IInv
<1> QED
  BY <1>1, InitInv, NextInv, PTL DEF Spec

(* Whatever the pipelines, runs, bounds and faults, each execution guard   *)
(* is held by a live attempt of its own pipeline and each claimed,         *)
(* dispatching or running attempt holds its guard: claim_run and           *)
(* _terminalize_attempt never leave two owners of one pipeline.            *)
THEOREM OwnershipCorrect == Spec => []LedgerOwnership
<1>1. IInv => LedgerOwnership
  BY Zenon DEF IInv
<1> QED
  BY <1>1, InitInv, NextInv, PTL DEF Spec

(* Whatever the pipelines, runs, bounds and faults, the audit only grows:  *)
(* late or repeated callbacks, reaps and boot adoption change no terminal  *)
(* attempt, no resolved intent and no recorded result.                     *)
THEOREM AuditCorrect == Spec => AuditIsImmutable
<1>1. IInv /\ [Next]_vars =>
        [/\ AuditKept(ledger, ledger')
         /\ \A r \in Runs : history[r] # "absent" => history'[r] = history[r]]_vars
  BY Zenon, NextInv DEF HistoryKept
<1> QED
  BY <1>1, InitInv, NextInv, PTL DEF Spec, AuditIsImmutable

-----------------------------------------------------------------------------
(* The ledger and the workers.                                            *)

\* Operator commands start, stop and restart; a POST that fails did not reach
\* the worker; probes and journal queries are answered.
Benign == /\ OperatorOps \cap {"update", "delete"} = {}
          /\ ~DispatchTimeouts /\ ~ProbeFailures

-----------------------------------------------------------------------------
(* The inductive invariant.                                                *)

\* The POST of attempt x is in the network, or a worker has admitted it.
Sent(W, J, x) == x \in W \/ J[x] # "absent"

\* The ledger L, the requests W, the workers' journals J and outboxes O.
Rows(L, W, J, O) == \A x \in AttemptIds :
    /\ x \in W => J[x] = "absent"
    /\ x \in O => J[x] \in {"success", "failed"}
    /\ Sent(W, J, x) => L.attempt[x] \notin {"absent", "claimed"}
    /\ L.attempt[x] # "absent" => L.intent[RunOf(x)] # "absent"
    /\ x \in W \/ J[x] = "active" => L.guard[OwnerOf(x)] = x
    /\ Sent(W, J, x) \/ L.attempt[x] = "unknown" =>
          L.guard[OwnerOf(x)] = x \/ L.intent[RunOf(x)] \in Outcomes

\* One attempt of a run at most is sent, and one at most is not terminal.
Single(L, W, J) == \A x, y \in AttemptIds : RunOf(x) = RunOf(y) =>
    /\ Sent(W, J, x) /\ Sent(W, J, y) => x = y
    /\ L.attempt[x] \in NonTerminal /\ L.attempt[y] \in NonTerminal => x = y

World(L, W, J, O) == Rows(L, W, J, O) /\ Single(L, W, J)

\* The manager's registry, its process and its threads.
Registry ==
    /\ manager = "up" => \A p \in Pipelines : exists(p) <=> p \in registered
    /\ job \subseteq registered
    /\ \A x \in AttemptIds : ledger.attempt[x] # "absent" => OwnerOf(x) \in registered
    /\ \A r \in Runs :
          /\ thread[r].config = "current"
          /\ thread[r].pc \notin {"new", "done"} => manager = "up" /\ PipelineOf[r] \in registered
    /\ manager # "up" => recon = Idle
    /\ manager = "down" => \A p \in Pipelines : lease[p] = None
    /\ manager = "adopting" =>
          \A a \in todo : ledger.attempt[a] \in Fenced /\ lease[OwnerOf(a)] = None

\* A run is queued only after its thread is done; until then it has no other
\* attempt than the thread's.
ThreadFits(r) ==
    /\ queued[r] # "absent" => thread[r].pc = "done"
    /\ thread[r].pc # "done" =>
          \A x \in AttemptIds : RunOf(x) = r /\ x # <<r, 1>> => ledger.attempt[x] = "absent"
    /\ thread[r].pc \in {"new", "submitted"} => ledger.attempt[<<r, 1>>] = "absent"
    /\ thread[r].pc = "sent" =>
          \/ ledger.attempt[<<r, 1>>] \in {"dispatching", "running"}
          \/ ledger.attempt[<<r, 1>>] = "terminal" /\ history[r] # "absent"
    /\ thread[r].pc \in {"enqueue", "finalize"} => ~Sent(wire, journal, <<r, 1>>)

\* No further attempt of r is claimed.
Frozen(r) ==
    \/ ledger.intent[r] \in Outcomes
    \/ thread[r].pc = "done" /\ queued[r] \notin {"queued", "dispatching"}

\* A recorded run is over, and one recorded as failed does not succeed.
ResultFits(r) ==
    /\ history[r] # "absent" => Frozen(r)
    /\ history[r] = "failed" /\ queued[r] # "expired" =>
          \A x \in AttemptIds : RunOf(x) = r =>
              x \notin wire /\ journal[x] \notin {"active", "success"}

\* A run that is tracked was admitted, and it is recorded or not terminal.
Tracked(r) == \E x \in AttemptIds :
    /\ RunOf(x) = r /\ journal[x] # "absent"
    /\ history[r] # "absent" \/ ledger.attempt[x] \in NonTerminal

Leases == \A p \in Pipelines : lease[p] # None =>
    PipelineOf[lease[p]] = p /\ Tracked(lease[p])

\* What the reconciler holds between its locked sections.
Reconciler ==
    /\ recon.at = "adopt" =>
          /\ recon.run \in Runs /\ PipelineOf[recon.run] = recon.pipeline
          /\ Tracked(recon.run)
    /\ recon.at = "query" =>
          /\ recon.run # None => recon.lease = recon.run
          /\ recon.lease # None =>
                /\ Tracked(recon.lease)
                /\ \A x \in AttemptIds : RunOf(x) = recon.lease =>
                      /\ journal[x] = "active" => recon.attempt = x
                      /\ history[recon.lease] = "absent" /\ journal[x] \in {"success", "failed"}
                            => recon.attempt = x
    /\ recon.at = "drain" =>
          /\ recon.attempt \in AttemptIds /\ recon.run = RunOf(recon.attempt)
          /\ queued[recon.run] # "absent"
          /\ journal[recon.attempt] = "absent" =>
                /\ ledger.attempt[recon.attempt] = "dispatching"
                /\ ledger.intent[recon.run] = "open"
          /\ \/ ledger.attempt[recon.attempt] \in {"dispatching", "running"}
             \/ history[recon.run] # "absent"

\* ... and a completion the manager acknowledged is recorded.
OInv ==
    /\ World(ledger, wire, journal, outbox)
    /\ Registry
    /\ \A r \in Runs : ThreadFits(r) /\ ResultFits(r)
    /\ Leases /\ Reconciler
    /\ AckedIsRecorded

-----------------------------------------------------------------------------
(* The transactions, field by field.                                       *)

\* Attempt a is claimed and its row left in state s.
Claims(L, M, a, s) ==
    /\ L.guard[OwnerOf(a)] = None /\ L.attempt[a] = "absent"
    /\ L.intent[RunOf(a)] \in {"absent", "open"}
    /\ \A q \in Pipelines : M.guard[q] = IF q = OwnerOf(a) THEN a ELSE L.guard[q]
    /\ \A x \in AttemptIds : M.attempt[x] = IF x = a THEN s ELSE L.attempt[x]
    /\ \A r \in Runs : M.intent[r] = IF r = RunOf(a) THEN "open" ELSE L.intent[r]

\* Attempt b is retired with an outcome, or with None.
Retires(L, M, b, outcome) ==
    /\ \A q \in Pipelines : M.guard[q] = IF q = OwnerOf(b) /\ L.guard[q] = b THEN None ELSE L.guard[q]
    /\ \A x \in AttemptIds :
          M.attempt[x] = IF x = b /\ L.attempt[x] \in Fenced THEN "terminal" ELSE L.attempt[x]
    /\ \A r \in Runs :
          M.intent[r] = IF r = RunOf(b) /\ outcome # None /\ L.intent[r] = "open" THEN outcome ELSE L.intent[r]

\* Attempt b moves between two states that are not terminal.
Moves(L, M, b, from, to) ==
    /\ M.guard = L.guard /\ M.intent = L.intent
    /\ \A x \in AttemptIds :
          M.attempt[x] = IF x = b /\ L.attempt[x] \in from THEN to ELSE L.attempt[x]

\* Intents are opened or resolved.
Notes(L, M) ==
    /\ M.guard = L.guard /\ M.attempt = L.attempt
    /\ \A r \in Runs : \/ M.intent[r] = L.intent[r]
                       \/ L.intent[r] = "absent" /\ M.intent[r] = "open"
                       \/ L.intent[r] = "open" /\ M.intent[r] \in Outcomes

\* _ensure_run_intent, resolve_intent and the cancellation of queued runs.
LEMMA NotesFacts ==
    ASSUME NEW L, L \in LedgerType
    PROVE  /\ \A r \in Runs : Notes(L, ensure_run_intent(L, r))
           /\ \A r \in Runs, o \in Outcomes : Notes(L, resolve_intent(L, r, o))
           /\ \A p \in Pipelines : Notes(L, abort_unowned_intents(L, p))
<1>1. \A r \in Runs : Notes(L, ensure_run_intent(L, r))
  BY Zenon DEF LedgerType, Notes, ensure_run_intent
<1>2. \A r \in Runs, o \in Outcomes : Notes(L, resolve_intent(L, r, o))
  BY Zenon DEF LedgerType, Notes, resolve_intent
<1>3. \A p \in Pipelines : Notes(L, abort_unowned_intents(L, p))
  BY Zenon DEF LedgerType, Notes, abort_unowned_intents, Outcomes
<1> QED
  BY Zenon, <1>1, <1>2, <1>3

\* claim_run after _ensure_run_intent, and the dispatch mark.
LEMMA ClaimFacts ==
    ASSUME NEW L, L \in LedgerType, NEW a \in AttemptIds, NEW p, p = OwnerOf(a), CanClaim(L, p, a)
    PROVE  /\ Claims(L, Claim(L, p, a), a, "claimed")
           /\ Claims(L, mark_attempt_dispatching(Claim(L, p, a), a), a, "dispatching")
<1> DEFINE E == ensure_run_intent(L, RunOf(a))
           M == Claim(L, p, a)
           N == mark_attempt_dispatching(M, a)
<1>0. p \in Pipelines /\ RunOf(a) \in Runs
  BY Zenon, LedgerConstants DEF AttemptIds
<1>1. /\ E.guard = L.guard /\ E.attempt = L.attempt /\ E \in LedgerType
      /\ E.intent = [L.intent EXCEPT ![RunOf(a)] = IF @ = "absent" THEN "open" ELSE @]
  BY Zenon DEF ensure_run_intent, LedgerType, IntentStates
<1>2. M = claim_run(E, p, a) /\ ClaimStatus(E, p, a) = "claimed"
  BY Zenon DEF Claim, CanClaim
<1> HIDE DEF E, M
<1>3. /\ E.guard[p] = None /\ E.intent[RunOf(a)] = "open" /\ E.attempt[a] = "absent"
  BY Zenon, <1>2 DEF ClaimStatus
<1>4. M = [E EXCEPT !.guard[p] = a, !.attempt[a] = "claimed"]
  BY Zenon, <1>2 DEF claim_run
<1>5. Claims(L, M, a, "claimed")
  BY Zenon, <1>0, <1>1, <1>3, <1>4 DEF Claims, LedgerType, IntentStates
<1>6. N = [M EXCEPT !.attempt[a] = "dispatching"]
  BY Zenon, <1>5 DEF Claims, mark_attempt_dispatching, MoveAttempt
<1>7. M.attempt \in [AttemptIds -> AttemptStates]
  BY Zenon, <1>1, <1>4 DEF LedgerType, AttemptStates, Fenced
<1>8. Claims(L, N, a, "dispatching")
  BY <1>5, <1>6, <1>7, <1>1, <1>4 DEF Claims, LedgerType
<1> QED
  BY Zenon, <1>5, <1>8 DEF M

\* _terminalize_attempt.
LEMMA RetireFacts ==
    ASSUME NEW L, L \in LedgerType, NEW b \in AttemptIds, NEW outcome \in Outcomes \cup {None},
           NEW M, M = terminalize_attempt(L, b, outcome)
    PROVE  Retires(L, M, b, outcome)
<1>0. OwnerOf(b) \in Pipelines /\ RunOf(b) \in Runs
  BY Zenon, LedgerConstants DEF AttemptIds
<1> DEFINE K == MoveAttempt(L, b, Fenced, "terminal")
           N == IF outcome = None THEN K ELSE resolve_intent(K, RunOf(b), outcome)
<1>1. /\ K.guard = L.guard /\ K.intent = L.intent /\ K \in LedgerType
      /\ \A x \in AttemptIds :
            K.attempt[x] = IF x = b /\ L.attempt[x] \in Fenced THEN "terminal" ELSE L.attempt[x]
  BY Zenon DEF MoveAttempt, LedgerType, AttemptStates
<1> HIDE DEF K
<1>2. /\ N.guard = K.guard /\ N.attempt = K.attempt /\ N \in LedgerType
      /\ \A r \in Runs :
            N.intent[r] = IF r = RunOf(b) /\ outcome # None /\ K.intent[r] = "open" THEN outcome ELSE K.intent[r]
  BY Zenon, <1>0, <1>1 DEF resolve_intent, LedgerType, IntentStates
<1>3. M = release_guard(N, OwnerOf(b), b)
  BY Zenon DEF terminalize_attempt, K
<1> HIDE DEF N
<1>4. /\ M.attempt = N.attempt /\ M.intent = N.intent
      /\ \A q \in Pipelines : M.guard[q] = IF q = OwnerOf(b) /\ N.guard[q] = b THEN None ELSE N.guard[q]
  BY <1>0, <1>2, <1>3 DEF release_guard, LedgerType
<1> QED
  BY Zenon, <1>1, <1>2, <1>4 DEF Retires

\* The moves within the states that are not terminal.
LEMMA MoveFacts ==
    ASSUME NEW L, L \in LedgerType, NEW b \in AttemptIds
    PROVE  /\ Moves(L, mark_attempt_running(L, b), b, {"dispatching"}, "running")
           /\ Moves(L, mark_attempt_unknown(L, b), b, {"dispatching", "running"}, "unknown")
BY Zenon DEF Moves, mark_attempt_running, mark_attempt_unknown, MoveAttempt, LedgerType

-----------------------------------------------------------------------------
(* The ledger against the workers.                                         *)

\* Attempt ids are pairs of a run and an ordinal.
LEMMA AttemptParts ==
    ASSUME NEW x \in AttemptIds
    PROVE  RunOf(x) \in Runs /\ OwnerOf(x) \in Pipelines
BY Zenon, LedgerConstants DEF AttemptIds

\* A run with an attempt that is not terminal is not aborted with the unowned intents.
LEMMA OwnedIsNotAborted ==
    ASSUME NEW L, NEW M, L \in LedgerType, NEW p \in Pipelines, M = abort_unowned_intents(L, p),
           NEW x \in AttemptIds, L.attempt[x] \in NonTerminal
    PROVE  M.intent[RunOf(x)] = L.intent[RunOf(x)]
<1>1. PICK n \in Ordinals : x = <<RunOf(x), n>>
  BY DEF AttemptIds
<1>2. n \in ActiveAttempts(L, RunOf(x))
  BY Zenon, <1>1 DEF ActiveAttempts
<1> QED
  BY Zenon, <1>2, AttemptParts DEF abort_unowned_intents, LedgerType

\* A claim finds no attempt of its run that is sent or not terminal.
LEMMA ClaimIsFirst ==
    ASSUME NEW L, NEW W, NEW J, NEW O, Good(L), World(L, W, J, O), NEW a \in AttemptIds,
           L.guard[OwnerOf(a)] = None, L.attempt[a] = "absent", L.intent[RunOf(a)] \in {"absent", "open"},
           NEW x \in AttemptIds, RunOf(x) = RunOf(a)
    PROVE  ~Sent(W, J, x) /\ L.attempt[x] \notin NonTerminal
<1>1. x # None /\ L.guard[OwnerOf(x)] # x
  BY Zenon, LedgerConstants
<1>2. L.intent[RunOf(x)] \notin Outcomes
  BY Zenon DEF Outcomes
<1>3. L.attempt[x] \notin Fenced
  BY Zenon, <1>1 DEF Good, GuardOwnership
<1> QED
  BY Zenon, <1>1, <1>2, <1>3 DEF World, Rows, NonTerminal

\* A claim, sent or not.
LEMMA ClaimWorld ==
    ASSUME NEW L, NEW M, NEW W, NEW J, NEW O, Good(L), Good(M), World(L, W, J, O),
           NEW a \in AttemptIds, NEW s \in {"claimed", "dispatching"}, Claims(L, M, a, s),
           NEW V, V = W \/ (V = W \cup {a} /\ s = "dispatching")
    PROVE  World(M, V, J, O)
<1>1. \A x \in AttemptIds : RunOf(x) = RunOf(a) => ~Sent(W, J, x) /\ L.attempt[x] \notin NonTerminal
  BY Zenon, ClaimIsFirst DEF Claims
<1>2. \A x \in AttemptIds : Sent(V, J, x) => Sent(W, J, x) \/ (x = a /\ s = "dispatching" /\ J[x] = "absent")
  BY Zenon, <1>1 DEF Sent
<1>3. \A x \in AttemptIds : L.guard[OwnerOf(x)] = x => M.guard[OwnerOf(x)] = x
  BY Zenon, LedgerConstants, AttemptParts DEF Claims
<1>4. M.guard[OwnerOf(a)] = a /\ M.attempt[a] = s /\ M.intent[RunOf(a)] = "open"
  BY Zenon, AttemptParts DEF Claims
<1>5. \A x \in AttemptIds : x # a => M.attempt[x] = L.attempt[x]
  BY Zenon DEF Claims
<1>6. \A x \in AttemptIds : /\ L.intent[RunOf(x)] # "absent" => M.intent[RunOf(x)] # "absent"
                            /\ L.intent[RunOf(x)] \in Outcomes => M.intent[RunOf(x)] \in Outcomes
  BY Zenon, AttemptParts DEF Claims, Outcomes
<1>7. Rows(M, V, J, O)
  <2> SUFFICES ASSUME NEW x \in AttemptIds
               PROVE  /\ x \in V => J[x] = "absent"
                      /\ x \in O => J[x] \in {"success", "failed"}
                      /\ Sent(V, J, x) => M.attempt[x] \notin {"absent", "claimed"}
                      /\ M.attempt[x] # "absent" => M.intent[RunOf(x)] # "absent"
                      /\ x \in V \/ J[x] = "active" => M.guard[OwnerOf(x)] = x
                      /\ Sent(V, J, x) \/ M.attempt[x] = "unknown" =>
                            M.guard[OwnerOf(x)] = x \/ M.intent[RunOf(x)] \in Outcomes
    BY Zenon DEF Rows
  <2>1. CASE x = a
    BY Zenon, <1>1, <1>4, <2>1 DEF Sent, World, Rows
  <2>2. CASE x # a
    BY Zenon, <1>2, <1>3, <1>5, <1>6, <2>2 DEF Sent, World, Rows
  <2> QED
    BY Zenon, <2>1, <2>2
<1>8. Single(M, V, J)
  BY Zenon, <1>1, <1>2, <1>5 DEF Single, World
<1> QED
  BY Zenon, <1>7, <1>8 DEF World

\* An attempt that no worker has, or will have, is retired.
LEMMA RetireWorld ==
    ASSUME NEW L, NEW M, NEW W, NEW J, NEW O, Good(L), World(L, W, J, O),
           NEW b \in AttemptIds, NEW outcome \in Outcomes \cup {None}, Retires(L, M, b, outcome),
           b \notin W, J[b] # "active",
           outcome = None => J[b] = "absent" /\ L.attempt[b] # "unknown"
    PROVE  World(M, W, J, O)
<1>1. \A x \in AttemptIds : x # b =>
        (L.guard[OwnerOf(x)] = x => M.guard[OwnerOf(x)] = x) /\ M.attempt[x] = L.attempt[x]
  BY Zenon, AttemptParts DEF Retires
<1>2. \A x \in AttemptIds : /\ L.intent[RunOf(x)] # "absent" => M.intent[RunOf(x)] # "absent"
                            /\ L.intent[RunOf(x)] \in Outcomes => M.intent[RunOf(x)] \in Outcomes
  BY Zenon, AttemptParts DEF Retires, Outcomes
<1>3. M.attempt[b] \in {L.attempt[b], "terminal"} /\ (M.attempt[b] = "terminal" => L.attempt[b] # "absent")
  BY Zenon DEF Retires, Fenced
<1>4. L.attempt[b] # "absent" /\ outcome # None => M.intent[RunOf(b)] \in Outcomes
  <2>1. L.attempt[b] # "absent" => L.intent[RunOf(b)] \in Outcomes \cup {"open"}
    BY Zenon, AttemptParts DEF World, Rows, Good, LedgerType, IntentStates
  <2> QED
    BY Zenon, <2>1, AttemptParts DEF Retires, Outcomes
<1>5. Rows(M, W, J, O)
  <2> SUFFICES ASSUME NEW x \in AttemptIds
               PROVE  /\ x \in W => J[x] = "absent"
                      /\ x \in O => J[x] \in {"success", "failed"}
                      /\ Sent(W, J, x) => M.attempt[x] \notin {"absent", "claimed"}
                      /\ M.attempt[x] # "absent" => M.intent[RunOf(x)] # "absent"
                      /\ x \in W \/ J[x] = "active" => M.guard[OwnerOf(x)] = x
                      /\ Sent(W, J, x) \/ M.attempt[x] = "unknown" =>
                            M.guard[OwnerOf(x)] = x \/ M.intent[RunOf(x)] \in Outcomes
    BY Zenon DEF Rows
  <2>1. CASE x = b
    BY Zenon, <1>2, <1>3, <1>4, <2>1 DEF World, Rows, Sent
  <2>2. CASE x # b
    BY Zenon, <1>1, <1>2, <2>2 DEF World, Rows
  <2> QED
    BY Zenon, <2>1, <2>2
<1>6. Single(M, W, J)
  <2>1. \A x \in AttemptIds : M.attempt[x] \in NonTerminal => L.attempt[x] \in NonTerminal
    BY Zenon DEF Retires, NonTerminal, Fenced
  <2> QED
    BY Zenon, <2>1 DEF World, Single
<1> QED
  BY Zenon, <1>5, <1>6 DEF World

\* A move keeps the row's guard.
LEMMA MoveWorld ==
    ASSUME NEW L, NEW M, NEW W, NEW J, NEW O, Good(L), World(L, W, J, O),
           NEW b \in AttemptIds, NEW from, NEW to \in {"running", "unknown"}, Moves(L, M, b, from, to),
           from \subseteq {"dispatching", "running"}
    PROVE  World(M, W, J, O)
<1>1. \A x \in AttemptIds : /\ M.attempt[x] # L.attempt[x] => /\ L.attempt[x] \in {"dispatching", "running"}
                                                              /\ M.attempt[x] \in {"running", "unknown"}
  BY Zenon DEF Moves
<1>2. \A x \in AttemptIds : /\ M.attempt[x] \in NonTerminal <=> L.attempt[x] \in NonTerminal
                            /\ M.attempt[x] = "absent" <=> L.attempt[x] = "absent"
                            /\ M.attempt[x] = "claimed" => L.attempt[x] = "claimed"
  BY Zenon, <1>1 DEF NonTerminal, Fenced
<1>3. \A x \in AttemptIds : M.attempt[x] = "unknown" => L.attempt[x] = "unknown" \/ L.guard[OwnerOf(x)] = x
  BY Zenon, <1>1 DEF Good, GuardOwnership, Fenced
<1>4. M.guard = L.guard /\ M.intent = L.intent
  BY Zenon DEF Moves
<1>5. Rows(M, W, J, O)
  BY Zenon, <1>2, <1>3, <1>4 DEF World, Rows
<1>6. Single(M, W, J)
  BY Zenon, <1>2 DEF World, Single
<1> QED
  BY Zenon, <1>5, <1>6 DEF World

\* Intents may be opened and resolved at any time.
LEMMA NoteWorld ==
    ASSUME NEW L, NEW M, NEW W, NEW J, NEW O, World(L, W, J, O), Notes(L, M)
    PROVE  World(M, W, J, O)
<1>1. \A x \in AttemptIds : /\ L.intent[RunOf(x)] # "absent" => M.intent[RunOf(x)] # "absent"
                            /\ L.intent[RunOf(x)] \in Outcomes => M.intent[RunOf(x)] \in Outcomes
  BY Zenon, AttemptParts DEF Notes, Outcomes
<1>2. M.guard = L.guard /\ M.attempt = L.attempt
  BY Zenon DEF Notes
<1>3. Rows(M, W, J, O)
  BY Zenon, <1>1, <1>2 DEF World, Rows
<1>4. Single(M, W, J)
  BY Zenon, <1>2 DEF World, Single
<1> QED
  BY Zenon, <1>3, <1>4 DEF World

\* Requests may be lost, and an acknowledged result leaves the outbox.
LEMMA LessWorld ==
    ASSUME NEW L, NEW W, NEW J, NEW O, World(L, W, J, O),
           NEW V \in SUBSET W, NEW P \in SUBSET O
    PROVE  World(L, V, J, P)
BY Zenon DEF World, Rows, Single, Sent

\* The worker of attempt a admits it, completes it or restarts.
WorkerMoves(W, J, O, V, K, P, a) ==
    /\ \A x \in AttemptIds : x # a => K[x] = J[x]
    /\ \/ a \in W /\ V = W \ {a} /\ P = O /\ K[a] = "active"
       \/ J[a] = "active" /\ V = W /\ P = O \cup {a} /\ K[a] \in {"success", "failed"}
       \/ J[a] = "active" /\ V = W /\ P = O /\ K[a] = "interrupted"

\* A worker admits an attempt, finishes one, or loses one.
LEMMA WorkerWorld ==
    ASSUME NEW L, NEW W, NEW J, NEW O, NEW V, NEW K, NEW P, World(L, W, J, O), NEW a \in AttemptIds,
           WorkerMoves(W, J, O, V, K, P, a)
    PROVE  World(L, V, K, P)
<1> USE DEF WorkerMoves
<1>1. \A x \in AttemptIds : Sent(V, K, x) => Sent(W, J, x)
  BY Zenon DEF Sent
<1>2. \A x \in AttemptIds : x \in V \/ K[x] = "active" => x \in W \/ J[x] = "active"
  BY Zenon
<1>3. \A x \in AttemptIds : x \in V => K[x] = "absent"
  BY Zenon DEF World, Rows
<1>4. \A x \in AttemptIds : x \in P => K[x] \in {"success", "failed"}
  BY Zenon DEF World, Rows
<1>5. Rows(L, V, K, P)
  BY Zenon, <1>1, <1>2, <1>3, <1>4 DEF World, Rows
<1>6. Single(L, V, K)
  BY Zenon, <1>1 DEF World, Single
<1> QED
  BY Zenon, <1>5, <1>6 DEF World

-----------------------------------------------------------------------------
(* What a step leaves alone.                                               *)

\* The step does not concern run r.
Quiet(r) ==
    /\ thread'[r].pc = thread[r].pc /\ queued'[r] = queued[r] /\ history'[r] = history[r]
    /\ ledger'.intent[r] = ledger.intent[r]
    /\ \A x \in AttemptIds : RunOf(x) = r =>
          /\ ledger'.attempt[x] = ledger.attempt[x] /\ journal'[x] = journal[x]
          /\ x \in wire' <=> x \in wire

\* Then what is known of r stays true.
LEMMA QuietRun ==
    ASSUME NEW r \in Runs, Quiet(r), ThreadFits(r), ResultFits(r)
    PROVE  ThreadFits(r)' /\ ResultFits(r)' /\ (Tracked(r) => Tracked(r)')
<1>1. <<r, 1>> \in AttemptIds /\ RunOf(<<r, 1>>) = r
  BY Zenon, FirstAttempt
<1>2. ThreadFits(r)'
  BY Zenon, <1>1 DEF ThreadFits, Quiet, Sent
<1>3. ResultFits(r)'
  BY Zenon DEF ResultFits, Quiet, Frozen
<1>4. Tracked(r) => Tracked(r)'
  BY Zenon DEF Tracked, Quiet
<1> QED
  BY Zenon, <1>2, <1>3, <1>4

\* Rows are not revived and guards are not handed on.
Orderly ==
    /\ AuditKept(ledger, ledger') /\ HistoryKept
    /\ \A x \in AttemptIds : ledger.attempt[x] = "unknown" => ledger'.attempt[x] = "unknown"
    /\ \A q \in Pipelines : ledger'.guard[q] \in {ledger.guard[q], None}
                               \/ ledger.attempt[ledger'.guard[q]] = "absent"

\* Then what is acknowledged stays recorded.
LEMMA AckedKept ==
    ASSUME AckedIsRecorded, Orderly, TypeOK,
           NEW a \in AttemptIds, journal[a] \in {"success", "failed"}, a \notin outbox
    PROVE  /\ history'[RunOf(a)] # "absent"
           /\ ledger'.guard[OwnerOf(a)] # a
           /\ ledger'.attempt[a] \in {"terminal", "unknown"}
           /\ ledger'.intent[RunOf(a)] \in Outcomes
<1>1. /\ history[RunOf(a)] # "absent" /\ ledger.guard[OwnerOf(a)] # a
      /\ ledger.attempt[a] \in {"terminal", "unknown"} /\ ledger.intent[RunOf(a)] \in Outcomes
  BY Zenon DEF AckedIsRecorded
<1>2. RunOf(a) \in Runs /\ OwnerOf(a) \in Pipelines /\ a # None
  BY Zenon, AttemptParts, LedgerConstants
<1>3. ledger'.guard[OwnerOf(a)] # a
  BY Zenon, <1>1, <1>2 DEF Orderly
<1> QED
  BY Zenon, <1>1, <1>2, <1>3 DEF Orderly, AuditKept, HistoryKept

\* A completion that is not new is recorded.
LEMMA AckedFrame ==
    ASSUME AckedIsRecorded, Orderly, TypeOK,
           \A a \in AttemptIds : journal'[a] \in {"success", "failed"} /\ a \notin outbox' =>
               journal[a] \in {"success", "failed"} /\ a \notin outbox
    PROVE  AckedIsRecorded'
BY Zenon, AckedKept DEF AckedIsRecorded

\* The transactions are orderly.
LEMMA LedgerOrderly ==
    ASSUME IInv, AuditKept(ledger, ledger'), HistoryKept,
           \/ ledger' = ledger
           \/ Notes(ledger, ledger')
           \/ \E a \in AttemptIds, s \in {"claimed", "dispatching"} : Claims(ledger, ledger', a, s)
           \/ \E b \in AttemptIds, o \in Outcomes \cup {None} : Retires(ledger, ledger', b, o)
           \/ \E b \in AttemptIds : Moves(ledger, ledger', b, {"dispatching"}, "running")
           \/ \E b \in AttemptIds : Moves(ledger, ledger', b, {"dispatching", "running"}, "unknown")
    PROVE  Orderly
<1>1. ledger \in LedgerType
  BY Zenon DEF IInv, TypeOK
<1>2. \A x \in AttemptIds : ledger.attempt[x] = "unknown" => ledger'.attempt[x] = "unknown"
  BY Zenon DEF Notes, Claims, Retires, Moves, Fenced
<1>3. \A q \in Pipelines : ledger'.guard[q] \in {ledger.guard[q], None}
                             \/ ledger.attempt[ledger'.guard[q]] = "absent"
  BY Zenon DEF Notes, Claims, Retires, Moves
<1> QED
  BY Zenon, <1>2, <1>3 DEF Orderly

\* A handler of a running manager that neither registers nor removes a pipeline.
LEMMA RegistryKept ==
    ASSUME Registry, manager = "up", manager' = "up", registered' = registered,
           \A p \in Pipelines : exists(p)' <=> exists(p),
           job' \subseteq registered,
           \A x \in AttemptIds : ledger'.attempt[x] # "absent" =>
               ledger.attempt[x] # "absent" \/ OwnerOf(x) \in registered,
           \A r \in Runs : /\ thread'[r].config = "current"
                           /\ thread'[r].pc \notin {"new", "done"} => PipelineOf[r] \in registered
    PROVE  Registry'
BY Zenon DEF Registry

\* Tracked runs stay tracked and leases are only dropped.
LEMMA LeasesKept ==
    ASSUME Leases, TypeOK,
           \A p \in Pipelines : lease'[p] \in {lease[p], None},
           \A r \in Runs : Tracked(r) => Tracked(r)'
    PROVE  Leases'
<1>1. \A p \in Pipelines : lease[p] # None => lease[p] \in Runs
  BY Zenon DEF TypeOK
<1> QED
  BY <1>1 DEF Leases, Tracked

\* The reconciler is between two items.
LEMMA ReconIdle ==
    ASSUME recon' = Idle PROVE Reconciler'
BY Zenon DEF Reconciler, Idle

\* The reconciler's item is not disturbed.
LEMMA ReconKept ==
    ASSUME Reconciler, TypeOK, HistoryKept, UNCHANGED recon,
           \A r \in Runs : Tracked(r) => Tracked(r)',
           \A x \in AttemptIds :
               /\ journal'[x] = "absent" => journal[x] = "absent"
               /\ journal'[x] = "active" =>
                     journal[x] = "active" \/ \A y \in AttemptIds : RunOf(y) = RunOf(x) => journal[y] = "absent"
               /\ journal'[x] \in {"success", "failed"} => journal[x] \in {"active", journal'[x]},
           recon.at = "drain" =>
               /\ queued[recon.run] # "absent" => queued'[recon.run] # "absent"
               /\ journal[recon.attempt] = "absent" =>
                     /\ ledger'.attempt[recon.attempt] = ledger.attempt[recon.attempt]
                     /\ ledger'.intent[recon.run] = ledger.intent[recon.run]
               /\ ledger.attempt[recon.attempt] \in {"dispatching", "running"} =>
                     \/ ledger'.attempt[recon.attempt] \in {"dispatching", "running"}
                     \/ history'[recon.run] # "absent"
    PROVE  Reconciler'
<1>1. recon' = recon
  BY Zenon
<1>2. recon.at = "adopt" => /\ recon.run \in Runs /\ PipelineOf[recon.run] = recon.pipeline
                            /\ Tracked(recon.run)'
  BY Zenon DEF Reconciler
<1>3. recon.at = "query" =>
          /\ recon.run # None => recon.lease = recon.run
          /\ recon.lease # None =>
                /\ Tracked(recon.lease)'
                /\ \A x \in AttemptIds : RunOf(x) = recon.lease =>
                      /\ journal'[x] = "active" => recon.attempt = x
                      /\ history'[recon.lease] = "absent" /\ journal'[x] \in {"success", "failed"}
                            => recon.attempt = x
  <2> SUFFICES ASSUME recon.at = "query", recon.lease # None
               PROVE  /\ Tracked(recon.lease)'
                      /\ \A x \in AttemptIds : RunOf(x) = recon.lease =>
                            /\ journal'[x] = "active" => recon.attempt = x
                            /\ history'[recon.lease] = "absent" /\ journal'[x] \in {"success", "failed"}
                                  => recon.attempt = x
    BY Zenon DEF Reconciler
  <2>1. recon.lease \in Runs
    BY Zenon DEF TypeOK
  <2>2. Tracked(recon.lease) /\ Tracked(recon.lease)'
    BY Zenon, <2>1 DEF Reconciler
  <2>3. PICK y \in AttemptIds : RunOf(y) = recon.lease /\ journal[y] # "absent"
    BY Zenon, <2>2 DEF Tracked
  <2>4. history'[recon.lease] = "absent" => history[recon.lease] = "absent"
    BY Zenon, <2>1 DEF HistoryKept
  <2>5. \A x \in AttemptIds : RunOf(x) = recon.lease =>
          /\ journal[x] = "active" => recon.attempt = x
          /\ history[recon.lease] = "absent" /\ journal[x] \in {"success", "failed"} => recon.attempt = x
    BY Zenon DEF Reconciler
  <2> QED
    BY Zenon, <2>2, <2>3, <2>4, <2>5
<1>4. recon.at = "drain" =>
          /\ recon.attempt \in AttemptIds /\ recon.run = RunOf(recon.attempt)
          /\ queued'[recon.run] # "absent"
          /\ journal'[recon.attempt] = "absent" =>
                /\ ledger'.attempt[recon.attempt] = "dispatching"
                /\ ledger'.intent[recon.run] = "open"
          /\ \/ ledger'.attempt[recon.attempt] \in {"dispatching", "running"}
             \/ history'[recon.run] # "absent"
  <2>1. recon.at = "drain" => recon.attempt \in AttemptIds /\ recon.run \in Runs
    BY Zenon, AttemptParts DEF Reconciler
  <2> QED
    BY Zenon, <2>1 DEF Reconciler, HistoryKept
<1> QED
  BY Zenon, <1>1, <1>2, <1>3, <1>4 DEF Reconciler

-----------------------------------------------------------------------------
(* One lemma per action, or per group of actions with the same effect.     *)

\* What is known of a step before its action is looked at.
Stepping == /\ Benign /\ IInv /\ OInv
            /\ IInv' /\ AuditKept(ledger, ledger') /\ HistoryKept

\* Nothing happens to the database, the workers or the threads.
LEMMA AllQuiet ==
    ASSUME Stepping, UNCHANGED <<ledger, queued, history, thread, wire, journal, outbox>>
    PROVE  /\ World(ledger, wire, journal, outbox)'
           /\ \A r \in Runs : /\ ThreadFits(r)' /\ ResultFits(r)'
                              /\ Tracked(r) => Tracked(r)'
           /\ AckedIsRecorded'
<1>1. World(ledger, wire, journal, outbox)'
  BY Zenon DEF Stepping, OInv
<1>2. \A r \in Runs : Quiet(r)
  BY Zenon DEF Quiet
<1>3. \A r \in Runs : /\ ThreadFits(r)' /\ ResultFits(r)'
                      /\ Tracked(r) => Tracked(r)'
  BY Zenon, <1>2, QuietRun DEF Stepping, OInv
<1>4. AckedIsRecorded'
  BY Zenon DEF Stepping, OInv, AckedIsRecorded
<1> QED
  BY Zenon, <1>1, <1>3, <1>4

\* A step that concerns run r alone.
LEMMA OneRun ==
    ASSUME Stepping, NEW r \in Runs, \A s \in Runs : s # r => Quiet(s),
           ThreadFits(r)', ResultFits(r)', Tracked(r) => Tracked(r)'
    PROVE  /\ \A s \in Runs : ThreadFits(s)' /\ ResultFits(s)'
           /\ \A s \in Runs : Tracked(s) => Tracked(s)'
BY Zenon, QuietRun DEF Stepping, OInv

\* A run whose thread has sent no request, or knows that it was refused.
LEMMA NothingSent ==
    ASSUME Stepping, NEW r \in Runs, thread[r].pc \in {"new", "submitted", "enqueue", "finalize"}
    PROVE  /\ queued[r] = "absent"
           /\ \A x \in AttemptIds : RunOf(x) = r => ~Sent(wire, journal, x)
           /\ history[r] # "absent" => ledger.intent[r] \in Outcomes
           /\ manager = "up" /\ thread[r].pc # "new" => PipelineOf[r] \in registered
           /\ ~Tracked(r)
<1>1. ThreadFits(r) /\ ResultFits(r) /\ Registry /\ Rows(ledger, wire, journal, outbox)
  BY Zenon DEF Stepping, OInv, World
<1>2. queued[r] = "absent"
  BY Zenon, <1>1 DEF ThreadFits
<1>3. \A x \in AttemptIds : RunOf(x) = r => ~Sent(wire, journal, x)
  BY Zenon, <1>1 DEF ThreadFits, Rows
<1>4. history[r] # "absent" => ledger.intent[r] \in Outcomes
  BY Zenon, <1>1 DEF ResultFits, Frozen
<1>5. thread[r].pc # "new" => PipelineOf[r] \in registered
  BY Zenon, <1>1 DEF Registry
<1>6. ~Tracked(r)
  BY Zenon, <1>3 DEF Tracked, Sent
<1> QED
  BY Zenon, <1>2, <1>3, <1>4, <1>5, <1>6

\* Such a thread ends; the run is recorded as failed, or queued, or neither.
LEMMA ThreadEnds ==
    ASSUME Stepping, NEW r \in Runs, thread[r].pc \in {"new", "submitted", "enqueue", "finalize"},
           thread'[r].pc = "done", UNCHANGED <<wire, journal>>,
           \/ queued'[r] = queued[r] /\ history'[r] \in {history[r], "failed"}
           \/ queued'[r] = "queued" /\ history'[r] = history[r]
    PROVE  ThreadFits(r)' /\ ResultFits(r)' /\ (Tracked(r) => Tracked(r)')
<1>1. /\ queued[r] = "absent"
      /\ \A x \in AttemptIds : RunOf(x) = r => ~Sent(wire, journal, x)
      /\ history[r] # "absent" => ledger.intent[r] \in Outcomes
      /\ ~Tracked(r)
  BY Zenon, NothingSent
<1>2. ThreadFits(r)'
  BY Zenon DEF ThreadFits
<1>3. ledger.intent[r] \in Outcomes => ledger'.intent[r] \in Outcomes
  BY Zenon DEF Stepping, AuditKept
<1>4. ResultFits(r)'
  BY Zenon, <1>1, <1>3 DEF ResultFits, Frozen, Sent
<1> QED
  BY Zenon, <1>1, <1>2, <1>4

\* _finalize_batch_result in a running manager.
LEMMA FinalizeFacts ==
    ASSUME Stepping, manager = "up", NEW p \in Pipelines, NEW r \in Runs, NEW result,
           finalize_batch_result(p, r, result)
    PROVE  /\ \A q \in Pipelines : exists(q)' <=> exists(q)
           /\ job' \subseteq registered
           /\ \A s \in Runs : s # r => history'[s] = history[s]
           /\ history'[r] = IF exists(p) /\ history[r] = "absent" THEN result ELSE history[r]
<1>1. TypeOK /\ Registry
  BY Zenon DEF Stepping, IInv, OInv
<1>2. CASE ~exists(p)
  BY Zenon, <1>1, <1>2 DEF finalize_batch_result, exists, Registry
<1>3. CASE exists(p)
  <2>1. history' = save_run(history, r, result) /\ on_run_complete(p, result)
    BY Zenon, <1>3 DEF finalize_batch_result
  <2>2. \A q \in Pipelines : exists(q)' <=> exists(q)
    BY Zenon, <1>1, <1>3, <2>1 DEF on_run_complete, Schedule, exists, TypeOK
  <2>3. job' \subseteq registered
    BY Zenon, <1>1, <1>3, <2>1 DEF on_run_complete, Schedule, Registry
  <2> QED
    BY Zenon, <1>1, <1>3, <2>1, <2>2, <2>3 DEF save_run, TypeOK
<1> QED
  BY Zenon, <1>2, <1>3

\* Steps of the running manager that concern run r and change no lease, no
\* attempt row and nothing of the workers: a thread that has nothing sent ends.
LEMMA EndStep ==
    ASSUME Stepping, NEW r \in Runs, thread[r].pc \in {"new", "submitted", "enqueue", "finalize"},
           manager = "up", UNCHANGED <<manager, registered, lease, recon, wire, journal, outbox>>,
           Notes(ledger, ledger'),
           thread'[r].pc = "done", thread'[r].config = "current",
           \A s \in Runs : s # r => /\ thread'[s] = thread[s] /\ queued'[s] = queued[s]
                                    /\ history'[s] = history[s]
                                    /\ ledger'.intent[s] = ledger.intent[s],
           \A q \in Pipelines : exists(q)' <=> exists(q),
           job' \subseteq registered,
           \/ queued'[r] = queued[r] /\ history'[r] \in {history[r], "failed"}
           \/ queued'[r] = "queued" /\ history'[r] = history[r]
    PROVE  OInv'
<1>1. World(ledger, wire, journal, outbox)'
  BY Zenon, NoteWorld DEF Stepping, OInv
<1>2. ledger'.attempt = ledger.attempt
  BY Zenon DEF Notes
<1>3. \A s \in Runs : s # r => Quiet(s)
  BY Zenon, <1>2 DEF Quiet
<1>4. ThreadFits(r)' /\ ResultFits(r)' /\ (Tracked(r) => Tracked(r)')
  BY Zenon, ThreadEnds
<1>5. /\ \A s \in Runs : ThreadFits(s)' /\ ResultFits(s)'
      /\ \A s \in Runs : Tracked(s) => Tracked(s)'
  BY Zenon, <1>3, <1>4, OneRun
<1>6. Registry'
  BY Zenon, <1>2, RegistryKept DEF Stepping, OInv, Registry
<1>7. Leases'
  BY Zenon, <1>5, LeasesKept DEF Stepping, IInv, OInv
<1>8. Reconciler'
  <2>1. recon.at = "drain" => recon.run \in Runs /\ recon.run # r
    BY Zenon, NothingSent, AttemptParts DEF Stepping, OInv, Reconciler
  <2> QED
    BY Zenon, <1>2, <1>5, <2>1, ReconKept DEF Stepping, IInv, OInv
<1>9. AckedIsRecorded'
  BY Zenon, LedgerOrderly, AckedFrame DEF Stepping, IInv, OInv
<1> QED
  BY Zenon, <1>1, <1>5, <1>6, <1>7, <1>8, <1>9 DEF OInv

\* A claim is for a run that is not recorded and that no worker has.
LEMMA ClaimIsFresh ==
    ASSUME Stepping, NEW a \in AttemptIds, NEW M, NEW s, Claims(ledger, M, a, s),
           thread[RunOf(a)].pc # "done" \/ queued[RunOf(a)] = "queued"
    PROVE  /\ history[RunOf(a)] = "absent" /\ ~Tracked(RunOf(a))
           /\ \A x \in AttemptIds : RunOf(x) = RunOf(a) => ~Sent(wire, journal, x)
<1>0. /\ Good(ledger) /\ World(ledger, wire, journal, outbox)
      /\ ledger.guard[OwnerOf(a)] = None /\ ledger.attempt[a] = "absent"
      /\ ledger.intent[RunOf(a)] \in {"absent", "open"}
  BY Zenon DEF Stepping, IInv, TypeOK, LedgerOwnership, Good, OInv, Claims
<1>1. \A x \in AttemptIds : RunOf(x) = RunOf(a) => ~Sent(wire, journal, x)
  BY Zenon, <1>0, ClaimIsFirst
<1>2. ~Tracked(RunOf(a))
  BY Zenon, <1>1 DEF Tracked, Sent
<1>3. ResultFits(RunOf(a))
  BY Zenon, AttemptParts DEF Stepping, OInv
<1>4. history[RunOf(a)] = "absent"
  BY Zenon, <1>3 DEF ResultFits, Frozen, Claims, Outcomes
<1> QED
  BY Zenon, <1>1, <1>2, <1>4

\* A dispatch thread, or the drain, claims an attempt and sends it.
LEMMA ClaimStep ==
    ASSUME Stepping, NEW r \in Runs, NEW a \in AttemptIds, RunOf(a) = r,
           manager = "up", PipelineOf[r] \in registered,
           UNCHANGED <<manager, registered, job, lease, journal, outbox, history>>,
           Claims(ledger, ledger', a, "dispatching"), wire' = wire \cup {a},
           \A q \in Pipelines : exists(q)' <=> exists(q),
           \A s \in Runs : s # r => thread'[s] = thread[s] /\ queued'[s] = queued[s],
           thread'[r].config = "current",
           \/ /\ a = <<r, 1>> /\ thread[r].pc \in {"new", "submitted"} /\ thread'[r].pc = "sent"
              /\ queued'[r] = queued[r] /\ UNCHANGED recon
           \/ /\ thread'[r] = thread[r] /\ queued[r] = "queued" /\ queued'[r] = "dispatching"
              /\ recon' = [Idle EXCEPT !.at = "drain", !.run = r, !.attempt = a]
    PROVE  OInv'
<1>0. ThreadFits(r) /\ ResultFits(r)
  BY Zenon DEF Stepping, OInv
<1>1. /\ history[r] = "absent" /\ ~Tracked(r)
      /\ \A x \in AttemptIds : RunOf(x) = r => ~Sent(wire, journal, x)
  BY Zenon, ClaimIsFresh
<1>2. World(ledger, wire, journal, outbox)'
  BY Zenon, ClaimWorld DEF Stepping, IInv, TypeOK, LedgerOwnership, Good, OInv
<1>3. \A s \in Runs : s # r => Quiet(s)
  BY Zenon DEF Quiet, Claims
<1>4. /\ ledger'.attempt[a] = "dispatching" /\ ledger'.intent[r] = "open"
      /\ \A x \in AttemptIds : x # a => ledger'.attempt[x] = ledger.attempt[x]
  BY Zenon DEF Claims
<1>5. ThreadFits(r)'
  <2>1. CASE a = <<r, 1>> /\ thread[r].pc \in {"new", "submitted"} /\ thread'[r].pc = "sent"
             /\ queued'[r] = queued[r]
    BY Zenon, <1>0, <1>4, <2>1 DEF ThreadFits
  <2>2. CASE thread'[r] = thread[r] /\ queued[r] = "queued"
    BY Zenon, <1>0, <2>2 DEF ThreadFits
  <2> QED
    BY Zenon, <2>1, <2>2
<1>6. ResultFits(r)'
  BY Zenon, <1>1 DEF ResultFits
<1>7. /\ \A s \in Runs : ThreadFits(s)' /\ ResultFits(s)'
      /\ \A s \in Runs : Tracked(s) => Tracked(s)'
  BY Zenon, <1>1, <1>3, <1>5, <1>6, OneRun
<1>8. Registry'
  <2>1. Registry
    BY Zenon DEF Stepping, OInv
  <2>2. \A x \in AttemptIds : ledger'.attempt[x] # "absent" =>
           ledger.attempt[x] # "absent" \/ OwnerOf(x) \in registered
    BY Zenon, <1>4
  <2>3. \A s \in Runs : /\ thread'[s].config = "current"
                        /\ thread'[s].pc \notin {"new", "done"} => PipelineOf[s] \in registered
    BY Zenon, <2>1 DEF Registry
  <2> QED
    BY Zenon, <2>1, <2>2, <2>3, RegistryKept DEF Registry
<1>9. Leases'
  BY Zenon, <1>7, LeasesKept DEF Stepping, IInv, OInv
<1>10. Reconciler'
  <2>1. CASE UNCHANGED recon /\ queued[r] = "absent"
    <3>1. recon.at = "drain" => recon.run \in Runs /\ recon.run # r
      BY Zenon, <2>1, AttemptParts DEF Stepping, OInv, Reconciler
    <3>2. recon.at = "drain" => Quiet(recon.run) /\ recon.attempt \in AttemptIds /\ RunOf(recon.attempt) = recon.run
      BY Zenon, <1>3, <3>1 DEF Stepping, OInv, Reconciler
    <3>3. recon.at = "drain" =>
               /\ queued[recon.run] # "absent" => queued'[recon.run] # "absent"
               /\ ledger'.attempt[recon.attempt] = ledger.attempt[recon.attempt]
               /\ ledger'.intent[recon.run] = ledger.intent[recon.run]
      BY Zenon, <3>2 DEF Quiet
    <3> QED
      BY Zenon, <1>7, <2>1, <3>3, ReconKept DEF Stepping, IInv, OInv
  <2>2. CASE recon' = [Idle EXCEPT !.at = "drain", !.run = r, !.attempt = a] /\ queued'[r] = "dispatching"
    BY Zenon, <1>4, <2>2 DEF Reconciler, Idle
  <2> QED
    BY Zenon, <1>0, <2>1, <2>2 DEF ThreadFits
<1>11. AckedIsRecorded'
  BY Zenon, LedgerOrderly, AckedFrame DEF Stepping, IInv, OInv
<1> QED
  BY Zenon, <1>2, <1>7, <1>8, <1>9, <1>10, <1>11 DEF OInv

\* A dispatch thread learns that the worker does not have its attempt.
LEMMA RefusedStep ==
    ASSUME Stepping, NEW r \in Runs, NEW o \in Outcomes \cup {None},
           thread[r].pc = "sent", thread'[r].pc \in {"enqueue", "finalize"},
           thread'[r].config = "current", \A s \in Runs : s # r => thread'[s] = thread[s],
           <<r, 1>> \notin wire', wire' \subseteq wire,
           \A x \in AttemptIds : x # <<r, 1>> => (x \in wire' <=> x \in wire),
           journal[<<r, 1>>] = "absent",
           ledger' = terminalize_attempt(ledger, <<r, 1>>, o),
           UNCHANGED <<queued, history, registered, manager, status, job, lease, recon, journal, outbox>>
    PROVE  OInv'
<1> DEFINE a == <<r, 1>>
<1>0. a \in AttemptIds /\ RunOf(a) = r
  BY Zenon, FirstAttempt
<1> HIDE DEF a
<1>1. ThreadFits(r) /\ ResultFits(r) /\ World(ledger, wire, journal, outbox) /\ Registry
  BY Zenon DEF Stepping, OInv
<1>2. Retires(ledger, ledger', a, o)
  BY Zenon, <1>0, RetireFacts DEF a, Stepping, IInv, TypeOK
<1>3. manager = "up"
  BY Zenon, <1>1 DEF Registry
<1>4. \A x \in AttemptIds : RunOf(x) = r => ~Sent(wire', journal, x)
  BY Zenon, <1>0, <1>1 DEF a, ThreadFits, World, Rows, Sent
<1>5. ~Tracked(r)
  BY Zenon, <1>4 DEF Tracked, Sent
<1>6. World(ledger, wire, journal, outbox)'
  <2>1. World(ledger, wire', journal, outbox)
    BY Zenon, <1>1, LessWorld
  <2>2. ledger.attempt[a] # "unknown"
    BY Zenon, <1>1 DEF a, ThreadFits
  <2>3. World(ledger', wire', journal, outbox)
    BY Zenon, <1>0, <1>2, <2>1, <2>2, RetireWorld DEF a, Stepping, IInv, TypeOK, LedgerOwnership, Good
  <2> QED
    BY Zenon, <2>3
<1>7. \A s \in Runs : s # r => Quiet(s)
  BY Zenon, <1>0, <1>2 DEF a, Quiet, Retires
<1>8. ThreadFits(r)'
  BY Zenon, <1>0, <1>1, <1>2, <1>4 DEF a, ThreadFits, Retires
<1>9. ResultFits(r)'
  <2>1. ledger.intent[r] \in Outcomes => ledger'.intent[r] \in Outcomes
    BY Zenon DEF Stepping, AuditKept
  <2> QED
    BY Zenon, <1>1, <1>4, <2>1 DEF ResultFits, Frozen, Sent
<1>10. /\ \A s \in Runs : ThreadFits(s)' /\ ResultFits(s)'
       /\ \A s \in Runs : Tracked(s) => Tracked(s)'
  BY Zenon, <1>5, <1>7, <1>8, <1>9, OneRun
<1>11. Registry'
  <2>1. \A x \in AttemptIds : ledger'.attempt[x] # "absent" => ledger.attempt[x] # "absent"
    BY Zenon, <1>2 DEF Retires, Fenced
  <2> QED
    BY Zenon, <1>1, <1>3, <2>1, RegistryKept DEF Registry, exists
<1>12. Leases'
  BY Zenon, <1>10, LeasesKept DEF Stepping, IInv, OInv
<1>13. Reconciler'
  <2>1. recon.at = "drain" => recon.run \in Runs /\ recon.run # r
    BY Zenon, <1>1, AttemptParts DEF Stepping, OInv, Reconciler, ThreadFits
  <2>2. recon.at = "drain" => Quiet(recon.run) /\ recon.attempt \in AttemptIds /\ RunOf(recon.attempt) = recon.run
    BY Zenon, <1>7, <2>1 DEF Stepping, OInv, Reconciler
  <2>3. recon.at = "drain" =>
            /\ ledger'.attempt[recon.attempt] = ledger.attempt[recon.attempt]
            /\ ledger'.intent[recon.run] = ledger.intent[recon.run]
    BY Zenon, <2>2 DEF Quiet
  <2> QED
    BY Zenon, <1>10, <2>3, ReconKept DEF Stepping, IInv, OInv
<1>14. AckedIsRecorded'
  BY Zenon, <1>0, <1>2, LedgerOrderly, AckedFrame DEF Stepping, IInv, OInv
<1> QED
  BY Zenon, <1>6, <1>10, <1>11, <1>12, <1>13, <1>14 DEF OInv

\* DISPATCH_ACCEPTED.
LEMMA AcceptedStep ==
    ASSUME Stepping, NEW r \in Runs, DispatchAccepted(r)
    PROVE  OInv'
<1> DEFINE a == <<r, 1>>
           p == PipelineOf[r]
<1>0. a \in AttemptIds /\ RunOf(a) = r /\ p \in Pipelines /\ OwnerOf(a) = p
  BY Zenon, FirstAttempt, LedgerConstants
<1>1. /\ ThreadFits(r) /\ ResultFits(r) /\ World(ledger, wire, journal, outbox) /\ Registry
      /\ TypeOK
  BY Zenon DEF Stepping, OInv, IInv
<1>2. /\ thread[r].pc = "sent" /\ journal[a] # "absent"
      /\ ThreadDone(r)
      /\ UNCHANGED <<queued, history, registered, manager, status, job, recon, wire, journal, outbox>>
  BY Zenon DEF DispatchAccepted, world
<1>3. /\ manager = "up" /\ exists(p) /\ thread[r].config = "current"
  BY Zenon, <1>0, <1>1, <1>2 DEF Registry
<1>4. \/ history[r] # "absent" /\ UNCHANGED <<ledger, lease>>
      \/ /\ history[r] = "absent"
         /\ ledger' = mark_attempt_running(ledger, a)
         /\ lease' = [lease EXCEPT ![p] = r]
  BY Zenon, <1>3 DEF DispatchAccepted
<1> HIDE DEF a, p
<1>5. \/ history[r] # "absent" /\ UNCHANGED <<ledger, lease>>
      \/ /\ history[r] = "absent"
         /\ Moves(ledger, ledger', a, {"dispatching"}, "running")
         /\ lease' = [lease EXCEPT ![p] = r]
  BY <1>0, <1>1, <1>4, MoveFacts DEF TypeOK
<1>6. World(ledger, wire, journal, outbox)'
  BY <1>0, <1>1, <1>2, <1>5, MoveWorld DEF Stepping, IInv, TypeOK, LedgerOwnership, Good
<1>7. \A s \in Runs : thread'[s] = IF s = r THEN [NewThread EXCEPT !.pc = "done"] ELSE thread[s]
  BY Zenon, <1>1, <1>2 DEF ThreadDone, TypeOK
<1>8. thread'[r].pc = "done" /\ thread'[r].config = "current" /\ \A s \in Runs : s # r => thread'[s] = thread[s]
  BY Zenon, <1>7 DEF NewThread
<1>9. \A x \in AttemptIds : /\ ledger.attempt[x] \in NonTerminal => ledger'.attempt[x] \in NonTerminal
                            /\ ledger'.attempt[x] # "absent" => ledger.attempt[x] # "absent"
                            /\ x # a => ledger'.attempt[x] = ledger.attempt[x]
  BY Zenon, <1>5 DEF Moves, NonTerminal, Fenced
<1>10. ledger'.intent = ledger.intent
  BY Zenon, <1>5 DEF Moves
<1>11. \A s \in Runs : s # r => Quiet(s)
  BY Zenon, <1>0, <1>2, <1>8, <1>9, <1>10 DEF Quiet
<1>12. ThreadFits(r)'
  BY Zenon, <1>8 DEF ThreadFits
<1>13. ResultFits(r)'
  BY Zenon, <1>1, <1>2, <1>10 DEF ResultFits, Frozen
<1>14. Tracked(r) => Tracked(r)'
  BY Zenon, <1>2, <1>9 DEF Tracked
<1>15. /\ \A s \in Runs : ThreadFits(s)' /\ ResultFits(s)'
       /\ \A s \in Runs : Tracked(s) => Tracked(s)'
  BY Zenon, <1>11, <1>12, <1>13, <1>14, OneRun
<1>16. Registry'
  BY Zenon, <1>1, <1>2, <1>3, <1>8, <1>9, RegistryKept DEF Registry, exists
<1>17. Leases'
  <2>1. CASE UNCHANGED lease
    BY Zenon, <1>15, <2>1, LeasesKept DEF Stepping, IInv, OInv
  <2>2. CASE history[r] = "absent" /\ lease' = [lease EXCEPT ![p] = r]
    <3>1. ledger.attempt[a] \in NonTerminal
      BY Zenon, <1>1, <1>2, <2>2 DEF a, ThreadFits, NonTerminal, Fenced
    <3>2. Tracked(r)
      BY Zenon, <1>0, <1>2, <3>1 DEF Tracked
    <3>3. \A q \in Pipelines : lease[q] # None => lease[q] \in Runs
      BY Zenon, <1>1 DEF TypeOK
    <3>4. \A q \in Pipelines : lease'[q] = IF q = p THEN r ELSE lease[q]
      BY Zenon, <1>0, <1>1, <2>2 DEF TypeOK
    <3>5. ASSUME NEW q \in Pipelines, lease'[q] # None
          PROVE  PipelineOf[lease'[q]] = q /\ \E s \in Runs : s = lease'[q] /\ Tracked(s)
      BY Zenon, <3>2, <3>3, <3>4, <3>5 DEF p, Stepping, OInv, Leases
    <3> QED
      BY <1>15, <3>5 DEF Leases, Tracked
  <2> QED
    BY Zenon, <1>5, <2>1, <2>2
<1>18. Reconciler'
  <2>1. recon.at = "drain" => recon.attempt \in AttemptIds /\ recon.attempt # a
    BY Zenon, <1>1, <1>0, <1>2 DEF Stepping, OInv, Reconciler, ThreadFits
  <2> QED
    BY Zenon, <1>2, <1>9, <1>10, <1>15, <2>1, ReconKept DEF Stepping, IInv, OInv
<1>19. AckedIsRecorded'
  BY Zenon, <1>0, <1>2, <1>5, LedgerOrderly, AckedFrame DEF Stepping, IInv, OInv
<1> QED
  BY Zenon, <1>6, <1>15, <1>16, <1>17, <1>18, <1>19 DEF OInv

\* _active_attempt_for_run returns an attempt of the run that is not terminal.
LEMMA ActiveAttempt ==
    ASSUME NEW L, NEW r \in Runs, NEW b, b = active_attempt_for_run(L, r)
    PROVE  /\ b # None => b \in AttemptIds /\ RunOf(b) = r /\ L.attempt[b] \in NonTerminal
           /\ b = None => \A x \in AttemptIds : RunOf(x) = r => L.attempt[x] \notin NonTerminal
<1>1. \A x \in AttemptIds : RunOf(x) = r => \E n \in Ordinals : x = <<r, n>>
  BY DEF AttemptIds
<1>2. CASE ActiveAttempts(L, r) = {}
  BY Zenon, <1>1, <1>2 DEF active_attempt_for_run, ActiveAttempts
<1>3. CASE ActiveAttempts(L, r) # {}
  <2>1. ActiveAttempts(L, r) \in SUBSET (0..MaxOrdinal)
    BY LedgerConstants DEF ActiveAttempts, Ordinals
  <2>2. Max(ActiveAttempts(L, r)) \in ActiveAttempts(L, r)
    BY Zenon, <1>3, <2>1, MaxIsElement
  <2>3. b = <<r, Max(ActiveAttempts(L, r))>>
    BY Zenon, <1>3 DEF active_attempt_for_run
  <2>4. b \in AttemptIds
    BY <2>2, <2>3 DEF ActiveAttempts, AttemptIds
  <2>5. RunOf(b) = r /\ b # None
    BY <2>3, <2>4, LedgerConstants
  <2>6. \A n \in ActiveAttempts(L, r) : L.attempt[<<r, n>>] \in NonTerminal
    BY Zenon DEF ActiveAttempts
  <2>7. L.attempt[b] \in NonTerminal
    BY Zenon, <2>2, <2>3, <2>6
  <2> QED
    BY Zenon, <2>4, <2>5, <2>7
<1> QED
  BY Zenon, <1>2, <1>3

\* What a completion of attempt a does to the ledger.
Completes(L, M, a) ==
    /\ \A x \in AttemptIds : M.attempt[x] # L.attempt[x] =>
          RunOf(x) = RunOf(a) /\ L.attempt[x] \in Fenced /\ M.attempt[x] = "terminal"
    /\ M.attempt[a] \in {"terminal", "unknown"}
    /\ \A q \in Pipelines : M.guard[q] \in {L.guard[q], None}
    /\ M.guard[OwnerOf(a)] # a
    /\ \A s \in Runs : s # RunOf(a) => M.intent[s] = L.intent[s]
    /\ M.intent[RunOf(a)] \in Outcomes

\* on_attempt_run_complete retires the attempt, and any other of the run.
LEMMA CompleteFacts ==
    ASSUME NEW L, NEW W, NEW J, NEW O, Good(L), World(L, W, J, O), NEW a \in AttemptIds,
           NEW result \in {"success", "failed"}, J[a] = result,
           NEW L1, L1 = terminalize_attempt(L, a, result),
           NEW b, b = active_attempt_for_run(L1, RunOf(a)),
           NEW M, M = L1 \/ (b # None /\ M = terminalize_attempt(L1, b, result))
    PROVE  World(M, W, J, O) /\ Completes(L, M, a)
<1>0. RunOf(a) \in Runs /\ OwnerOf(a) \in Pipelines /\ result \in Outcomes \cup {None} /\ result # None
  BY Zenon, AttemptParts, NullOutcome DEF Outcomes
<1>1. Retires(L, L1, a, result) /\ Good(L1)
  BY Zenon, <1>0, RetireFacts, TerminalizeAttempt DEF Good
<1>2. a \notin W /\ J[a] # "active" /\ Sent(W, J, a)
  BY Zenon DEF World, Rows, Sent
<1>3. World(L1, W, J, O)
  BY Zenon, <1>0, <1>1, <1>2, RetireWorld
<1>4. Completes(L, L1, a)
  <2>1. L.attempt[a] \notin {"absent", "claimed"} /\ L.intent[RunOf(a)] # "absent"
    BY Zenon, <1>2 DEF World, Rows
  <2>2. L1.attempt[a] \in {"terminal", "unknown"}
    BY Zenon, <1>1, <2>1 DEF Retires, Good, LedgerType, AttemptStates, Fenced
  <2>3. L1.intent[RunOf(a)] \in Outcomes
    BY Zenon, <1>0, <1>1, <2>1 DEF Retires, Good, LedgerType, IntentStates
  <2> QED
    BY Zenon, <1>0, <1>1, <2>2, <2>3, LedgerConstants DEF Completes, Retires
<1>5. ASSUME b # None, M = terminalize_attempt(L1, b, result)
      PROVE  World(M, W, J, O) /\ Completes(L, M, a)
  <2>1. b \in AttemptIds /\ RunOf(b) = RunOf(a)
    BY <1>0, <1>5, ActiveAttempt
  <2>2. Retires(L1, M, b, result)
    BY Zenon, <1>0, <1>1, <1>5, <2>1, RetireFacts DEF Good
  <2>3. Sent(W, J, b) => b = a
    BY Zenon, <1>2, <2>1 DEF World, Single
  <2>4. b \notin W /\ J[b] # "active"
    BY Zenon, <1>2, <2>3 DEF Sent
  <2>5. World(M, W, J, O)
    BY Zenon, <1>0, <1>1, <1>3, <2>1, <2>2, <2>4, RetireWorld
  <2>6. Completes(L, M, a)
    <3>1. \A x \in AttemptIds : M.attempt[x] # L1.attempt[x] =>
             RunOf(x) = RunOf(a) /\ L1.attempt[x] \in Fenced /\ M.attempt[x] = "terminal"
      BY Zenon, <2>1, <2>2 DEF Retires
    <3>2. \A q \in Pipelines : M.guard[q] \in {L1.guard[q], None}
      BY Zenon, <2>2 DEF Retires
    <3>3. \A s \in Runs : M.intent[s] = IF s = RunOf(a) /\ L1.intent[s] = "open" THEN result ELSE L1.intent[s]
      BY Zenon, <1>0, <2>1, <2>2 DEF Retires
    <3> QED
      BY <1>0, <1>4, <3>1, <3>2, <3>3, LedgerConstants DEF Completes, Fenced, Outcomes
  <2> QED
    BY Zenon, <2>5, <2>6
<1> QED
  BY Zenon, <1>3, <1>4, <1>5

\* A completion is applied, by a callback or by the reconciler.
LEMMA CompletionStep ==
    ASSUME Stepping, NEW a \in AttemptIds, manager = "up",
           journal[a] \in {"success", "failed"}, on_attempt_run_complete(a, journal[a]),
           outbox' \in {outbox, outbox \ {a}}, recon' \in {recon, Idle},
           UNCHANGED <<queued, registered, manager, thread, wire, journal>>
    PROVE  OInv'
<1> DEFINE r  == RunOf(a)
           p  == OwnerOf(a)
           L1 == terminalize_attempt(ledger, a, journal[a])
           b  == active_attempt_for_run(L1, r)
<1>0. r \in Runs /\ p \in Pipelines /\ PipelineOf[r] = p
  BY Zenon, AttemptParts
<1>1. /\ ThreadFits(r) /\ ResultFits(r) /\ World(ledger, wire, journal, outbox) /\ Registry
      /\ TypeOK /\ Good(ledger)
  BY Zenon, <1>0 DEF Stepping, OInv, IInv, TypeOK, LedgerOwnership, Good
<1>2. Sent(wire, journal, a)
  BY Zenon DEF Sent
<1>3. exists(p)
  BY Zenon, <1>0, <1>1, <1>2 DEF World, Rows, Registry
<1>4. /\ lease' = [lease EXCEPT ![p] = IF @ = r THEN None ELSE @]
      /\ \/ history[r] # "absent" /\ ledger' = L1 /\ UNCHANGED <<history, status, job>>
         \/ /\ history[r] = "absent"
            /\ ledger' = L1 \/ (b # None /\ ledger' = terminalize_attempt(L1, b, journal[a]))
            /\ finalize_batch_result(p, r, journal[a])
  BY Zenon DEF on_attempt_run_complete, on_worker_run_complete, pop_batch_lease
<1>5. World(ledger', wire, journal, outbox) /\ Completes(ledger, ledger', a)
  <2>1. ledger' = L1 \/ (b # None /\ ledger' = terminalize_attempt(L1, b, journal[a]))
    BY Zenon, <1>4
  <2> QED
    BY <1>1, <2>1, CompleteFacts
<1>6. World(ledger, wire, journal, outbox)'
  BY Zenon, <1>5, LessWorld
<1> HIDE DEF r, p, L1, b
<1>7. /\ \A q \in Pipelines : exists(q)' <=> exists(q)
      /\ job' \subseteq registered
      /\ \A s \in Runs : s # r => history'[s] = history[s]
      /\ history'[r] = IF history[r] = "absent" THEN journal[a] ELSE history[r]
  <2>1. CASE history[r] # "absent" /\ UNCHANGED <<history, status, job>>
    BY Zenon, <1>1, <2>1 DEF exists, Registry
  <2>2. CASE history[r] = "absent" /\ finalize_batch_result(p, r, journal[a])
    BY Zenon, <1>0, <1>3, <2>2, FinalizeFacts
  <2> QED
    BY Zenon, <1>4, <2>1, <2>2
<1>8. history'[r] # "absent"
  BY Zenon, <1>7
<1>9. \A s \in Runs : s # r => Quiet(s)
  BY Zenon, <1>5, <1>7 DEF r, Quiet, Completes
<1>10. \A x \in AttemptIds : /\ ledger'.attempt[x] \in {ledger.attempt[x], "terminal"}
                             /\ ledger.attempt[x] = "absent" => ledger'.attempt[x] = "absent"
  BY Zenon, <1>5 DEF Completes, Fenced
<1>11. ThreadFits(r)'
  BY Zenon, <1>0, <1>1, <1>8, <1>10, FirstAttempt DEF ThreadFits
<1>12. ResultFits(r)'
  <2>1. ledger'.intent[r] \in Outcomes
    BY Zenon, <1>5 DEF r, Completes
  <2>2. \A x \in AttemptIds : RunOf(x) = r /\ Sent(wire, journal, x) => x = a
    BY Zenon, <1>1, <1>2 DEF r, World, Single
  <2>3. history'[r] = "failed" /\ history[r] = "absent" =>
          \A x \in AttemptIds : RunOf(x) = r => x \notin wire /\ journal[x] \notin {"active", "success"}
    BY Zenon, <1>1, <1>7, <2>2 DEF World, Rows, Sent
  <2> QED
    BY Zenon, <1>1, <1>7, <2>1, <2>3 DEF ResultFits, Frozen
<1>13. Tracked(r) => Tracked(r)'
  BY Zenon, <1>8 DEF Tracked
<1>14. /\ \A s \in Runs : ThreadFits(s)' /\ ResultFits(s)'
       /\ \A s \in Runs : Tracked(s) => Tracked(s)'
  BY Zenon, <1>0, <1>9, <1>11, <1>12, <1>13, OneRun
<1>15. Registry'
  BY Zenon, <1>1, <1>7, <1>10, RegistryKept DEF Registry
<1>16. Leases'
  <2>1. \A q \in Pipelines : lease'[q] \in {lease[q], None}
    BY Zenon, <1>0, <1>1, <1>4 DEF TypeOK
  <2> QED
    BY Zenon, <1>14, <2>1, LeasesKept DEF Stepping, IInv, OInv
<1>17. Reconciler'
  <2>1. CASE recon' = Idle
    BY Zenon, <2>1, ReconIdle
  <2>2. CASE UNCHANGED recon
    <3>1. ASSUME recon.at = "drain", recon.run = r, journal[recon.attempt] = "absent"
          PROVE  FALSE
      <4>1. /\ recon.attempt \in AttemptIds /\ RunOf(recon.attempt) = r
            /\ ledger.attempt[recon.attempt] = "dispatching" /\ ledger.intent[r] = "open"
        BY Zenon, <3>1 DEF Stepping, OInv, Reconciler
      <4>2. ledger.guard[p] = recon.attempt
        BY Zenon, <4>1 DEF r, p, Stepping, IInv, LedgerOwnership, GuardOwnership, Fenced
      <4>3. ledger.guard[p] = a
        BY Zenon, <1>1, <1>2, <4>1 DEF r, p, World, Rows, Outcomes
      <4> QED
        BY Zenon, <3>1, <4>2, <4>3
    <3>2. recon.at = "drain" =>
            /\ journal[recon.attempt] = "absent" =>
                  /\ ledger'.attempt[recon.attempt] = ledger.attempt[recon.attempt]
                  /\ ledger'.intent[recon.run] = ledger.intent[recon.run]
            /\ ledger.attempt[recon.attempt] \in {"dispatching", "running"} =>
                  \/ ledger'.attempt[recon.attempt] \in {"dispatching", "running"}
                  \/ history'[recon.run] # "absent"
      <4>1. recon.at = "drain" => recon.attempt \in AttemptIds /\ recon.run = RunOf(recon.attempt)
        BY Zenon DEF Stepping, OInv, Reconciler
      <4>2. recon.at = "drain" => recon.run \in Runs
        BY Zenon, <4>1, AttemptParts
      <4> QED
        BY Zenon, <1>8, <1>9, <3>1, <4>1, <4>2 DEF Quiet
    <3> QED
      BY Zenon, <1>14, <2>2, <3>2, ReconKept DEF Stepping, IInv, OInv
  <2> QED
    BY Zenon, <2>1, <2>2
<1>18. AckedIsRecorded'
  <2>1. Orderly
    BY Zenon, <1>5 DEF Stepping, Orderly, Completes, Fenced
  <2>2. \A x \in AttemptIds : x # a /\ x \notin outbox' => x \notin outbox
    BY Zenon
  <2>3. ASSUME NEW x \in AttemptIds, journal'[x] \in {"success", "failed"}, x \notin outbox'
        PROVE  /\ history'[RunOf(x)] # "absent"
               /\ ledger'.guard[OwnerOf(x)] # x
               /\ ledger'.attempt[x] \in {"terminal", "unknown"}
               /\ ledger'.intent[RunOf(x)] \in Outcomes
    <3>1. CASE x = a
      BY Zenon, <1>5, <1>8, <3>1 DEF r, Completes
    <3>2. CASE x # a
      BY Zenon, <2>1, <2>2, <2>3, <3>2, AckedKept DEF Stepping, IInv, OInv
    <3> QED
      BY Zenon, <3>1, <3>2
  <2> QED
    BY Zenon, <2>3 DEF AckedIsRecorded
<1> QED
  BY Zenon, <1>6, <1>14, <1>15, <1>16, <1>17, <1>18 DEF OInv

\* The reconciler gives a tracked run up: no worker has it any more.
LEMMA LostStep ==
    ASSUME Stepping, NEW r \in Runs, NEW b, manager = "up",
           recon.at = "query", recon.lease = r, NoJournalEvidence(recon.attempt),
           exists(PipelineOf[r]),
           b = active_attempt_for_run(ledger, r),
           ledger' = IF b = None THEN ledger ELSE terminalize_attempt(ledger, b, "failed"),
           \/ history[r] # "absent" /\ UNCHANGED <<history, status, job>>
           \/ history[r] = "absent" /\ finalize_batch_result(PipelineOf[r], r, "failed"),
           \A q \in Pipelines : lease'[q] \in {lease[q], None}, recon' = Idle,
           UNCHANGED <<queued, registered, manager, thread, wire, journal, outbox>>
    PROVE  OInv'
<1>0. PipelineOf[r] \in Pipelines /\ r # None
  BY Zenon, LedgerConstants
<1>1. /\ ThreadFits(r) /\ ResultFits(r) /\ World(ledger, wire, journal, outbox) /\ Registry
      /\ TypeOK /\ Good(ledger)
  BY Zenon DEF Stepping, OInv, IInv, TypeOK, LedgerOwnership, Good
<1>2. PICK t \in AttemptIds : /\ RunOf(t) = r /\ journal[t] # "absent"
                              /\ history[r] # "absent" \/ ledger.attempt[t] \in NonTerminal
  BY Zenon, <1>0 DEF Stepping, OInv, Reconciler, Tracked
<1>3. \A x \in AttemptIds : RunOf(x) = r /\ Sent(wire, journal, x) => x = t
  BY Zenon, <1>1, <1>2 DEF World, Single, Sent
<1>4. \A x \in AttemptIds : RunOf(x) = r =>
         /\ x \notin wire /\ journal[x] # "active"
         /\ history[r] = "absent" => journal[x] \notin {"success", "failed"}
  <2>1. \A x \in AttemptIds : RunOf(x) = r =>
          /\ journal[x] = "active" => recon.attempt = x
          /\ history[r] = "absent" /\ journal[x] \in {"success", "failed"} => recon.attempt = x
    BY Zenon, <1>0 DEF Stepping, OInv, Reconciler
  <2>2. \A x \in AttemptIds : recon.attempt = x => journal[x] \in {"absent", "interrupted"}
    BY Zenon, LedgerConstants DEF NoJournalEvidence
  <2>3. \A x \in AttemptIds : RunOf(x) = r => x \notin wire
    BY Zenon, <1>1, <1>2, <1>3 DEF World, Rows, Sent
  <2> QED
    BY Zenon, <2>1, <2>2, <2>3
<1>5. /\ b # None => b \in AttemptIds /\ RunOf(b) = r /\ ledger.attempt[b] \in NonTerminal
      /\ b = None => history[r] # "absent"
  BY Zenon, <1>2, ActiveAttempt
<1>6. "failed" \in Outcomes \cup {None} /\ "failed" # None
  BY Zenon, NullOutcome DEF Outcomes
<1>7. b # None => Retires(ledger, ledger', b, "failed")
  BY Zenon, <1>1, <1>5, <1>6, RetireFacts DEF TypeOK
<1>8. World(ledger, wire, journal, outbox)'
  <2>1. CASE b = None
    BY Zenon, <1>1, <2>1
  <2>2. CASE b # None
    <3>1. World(ledger', wire, journal, outbox)
      BY Zenon, <1>1, <1>4, <1>5, <1>6, <1>7, <2>2, RetireWorld
    <3> QED
      BY Zenon, <3>1
  <2> QED
    BY Zenon, <2>1, <2>2
<1>9. /\ \A x \in AttemptIds : /\ ledger'.attempt[x] \in {ledger.attempt[x], "terminal"}
                               /\ ledger.attempt[x] = "absent" => ledger'.attempt[x] = "absent"
                               /\ RunOf(x) # r => ledger'.attempt[x] = ledger.attempt[x]
      /\ \A s \in Runs : s # r => ledger'.intent[s] = ledger.intent[s]
  BY Zenon, <1>5, <1>7 DEF Retires, Fenced
<1>10. /\ \A q \in Pipelines : exists(q)' <=> exists(q)
       /\ job' \subseteq registered
       /\ \A s \in Runs : s # r => history'[s] = history[s]
       /\ history'[r] = IF history[r] = "absent" THEN "failed" ELSE history[r]
  <2>1. CASE history[r] # "absent" /\ UNCHANGED <<history, status, job>>
    BY Zenon, <1>1, <2>1 DEF exists, Registry
  <2>2. CASE history[r] = "absent" /\ finalize_batch_result(PipelineOf[r], r, "failed")
    BY Zenon, <1>0, <2>2, FinalizeFacts
  <2> QED
    BY Zenon, <2>1, <2>2
<1>11. history'[r] # "absent"
  BY Zenon, <1>10
<1>12. \A s \in Runs : s # r => Quiet(s)
  BY Zenon, <1>9, <1>10 DEF Quiet
<1>13. ThreadFits(r)'
  BY Zenon, <1>1, <1>9, <1>11, FirstAttempt DEF ThreadFits
<1>14. ResultFits(r)'
  <2>1. history[r] = "absent" => ledger'.intent[r] \in Outcomes
    <3>1. b # None => ledger.intent[r] \in Outcomes \cup {"open"}
      BY <1>1, <1>5 DEF World, Rows, TypeOK, LedgerType, IntentStates, NonTerminal, Fenced
    <3> QED
      BY Zenon, <1>5, <1>6, <1>7, <3>1 DEF Retires, Outcomes
  <2>2. ledger.intent[r] \in Outcomes => ledger'.intent[r] \in Outcomes
    BY Zenon DEF Stepping, AuditKept
  <2> QED
    BY Zenon, <1>1, <1>4, <1>10, <2>1, <2>2 DEF ResultFits, Frozen
<1>15. Tracked(r) => Tracked(r)'
  BY Zenon, <1>11 DEF Tracked
<1>16. /\ \A s \in Runs : ThreadFits(s)' /\ ResultFits(s)'
       /\ \A s \in Runs : Tracked(s) => Tracked(s)'
  BY Zenon, <1>12, <1>13, <1>14, <1>15, OneRun
<1>17. Registry'
  BY Zenon, <1>1, <1>9, <1>10, RegistryKept DEF Registry
<1>18. Leases'
  BY Zenon, <1>16, LeasesKept DEF Stepping, IInv, OInv
<1>19. Reconciler'
  BY Zenon, ReconIdle
<1>20. AckedIsRecorded'
  BY Zenon, <1>5, <1>6, <1>7, LedgerOrderly, AckedFrame DEF Stepping, IInv, OInv
<1> QED
  BY Zenon, <1>8, <1>16, <1>17, <1>18, <1>19, <1>20 DEF OInv

\* A queued run expires.
LEMMA ExpireStep ==
    ASSUME Stepping, expire_queued_run
    PROVE  OInv'
<1>0. /\ manager = "up" /\ recon.run \in Runs /\ recon' = Idle
      /\ UNCHANGED <<registered, manager, lease, thread, wire, journal, outbox>>
  BY Zenon DEF expire_queued_run, world, Stepping, IInv, ReconOK
<1> DEFINE r == recon.run
           p == PipelineOf[r]
<1>1. r \in Runs /\ p \in Pipelines
  BY Zenon, <1>0, LedgerConstants
<1>2. \/ UNCHANGED <<queued, ledger, history, status, job>>
      \/ /\ queued[r] = "queued" /\ queued' = [queued EXCEPT ![r] = "expired"]
         /\ ledger' = resolve_intent(ledger, r, "expired")
         /\ finalize_batch_result(p, r, "failed")
  BY Zenon DEF expire_queued_run
<1> HIDE DEF r, p
<1>3. CASE UNCHANGED <<queued, ledger, history, status, job>>
  <2>1. /\ World(ledger, wire, journal, outbox)'
        /\ \A s \in Runs : /\ ThreadFits(s)' /\ ResultFits(s)'
                           /\ Tracked(s) => Tracked(s)'
        /\ AckedIsRecorded'
    BY Zenon, <1>0, <1>3, AllQuiet
  <2>2. Registry'
    BY Zenon, <1>0, <1>3, RegistryKept DEF Stepping, OInv, Registry, exists
  <2>3. Leases' /\ Reconciler'
    BY Zenon, <1>0, <2>1, LeasesKept, ReconIdle DEF Stepping, IInv, OInv
  <2> QED
    BY Zenon, <2>1, <2>2, <2>3 DEF OInv
<1>4. CASE /\ queued[r] = "queued" /\ queued' = [queued EXCEPT ![r] = "expired"]
           /\ ledger' = resolve_intent(ledger, r, "expired")
           /\ finalize_batch_result(p, r, "failed")
  <2>0. PICK c \in Runs : c = r
    BY Zenon, <1>1
  <2>1. /\ ThreadFits(r) /\ ResultFits(r) /\ World(ledger, wire, journal, outbox) /\ Registry
        /\ TypeOK /\ ledger \in LedgerType
    BY Zenon, <2>0 DEF Stepping, OInv, IInv, TypeOK
  <2>2. /\ Notes(ledger, ledger')
        /\ \A s \in Runs : s # c => ledger'.intent[s] = ledger.intent[s]
    BY Zenon, <1>4, <2>0, <2>1, NotesFacts DEF Outcomes, resolve_intent, LedgerType
  <2>3. World(ledger, wire, journal, outbox)'
    BY Zenon, <1>0, <2>1, <2>2, NoteWorld
  <2>4. /\ \A q \in Pipelines : exists(q)' <=> exists(q)
        /\ job' \subseteq registered
        /\ \A s \in Runs : s # c => history'[s] = history[s]
    BY Zenon, <1>0, <1>1, <1>4, <2>0, FinalizeFacts
  <2>5. /\ queued'[c] = "expired" /\ thread[c].pc = "done"
        /\ \A s \in Runs : s # c => queued'[s] = queued[s]
    BY Zenon, <1>4, <2>0, <2>1 DEF TypeOK, ThreadFits
  <2>6. ledger'.attempt = ledger.attempt
    BY Zenon, <2>2 DEF Notes
  <2>7. \A s \in Runs : s # c => Quiet(s)
    BY Zenon, <1>0, <2>2, <2>4, <2>5, <2>6 DEF Quiet
  <2>8. ThreadFits(c)' /\ ResultFits(c)'
    BY Zenon, <1>0, <2>5 DEF ThreadFits, ResultFits, Frozen
  <2>9. Tracked(c) => Tracked(c)'
    BY Zenon, <1>0, <2>6 DEF Tracked, Stepping, HistoryKept
  <2>10. /\ \A s \in Runs : ThreadFits(s)' /\ ResultFits(s)'
         /\ \A s \in Runs : Tracked(s) => Tracked(s)'
    BY Zenon, <2>7, <2>8, <2>9, OneRun
  <2>11. Registry'
    BY Zenon, <1>0, <2>1, <2>4, <2>6, RegistryKept DEF Registry
  <2>12. Leases' /\ Reconciler'
    BY Zenon, <1>0, <2>10, LeasesKept, ReconIdle DEF Stepping, IInv, OInv
  <2>13. AckedIsRecorded'
    BY Zenon, <1>0, <2>2, LedgerOrderly, AckedFrame DEF Stepping, IInv, OInv
  <2> QED
    BY Zenon, <2>3, <2>10, <2>11, <2>12, <2>13 DEF OInv
<1> QED
  BY Zenon, <1>2, <1>3, <1>4

\* The running manager changes a status, a job, a lease or its reconciler only.
LEMMA QuietStep ==
    ASSUME Stepping, manager = "up",
           UNCHANGED <<ledger, queued, history, thread, wire, journal, outbox, manager, registered>>,
           \A q \in Pipelines : exists(q)' <=> exists(q), job' \subseteq registered,
           \A q \in Pipelines : lease'[q] # None =>
               PipelineOf[lease'[q]] = q /\ \E s \in Runs : s = lease'[q] /\ Tracked(s),
           recon' \in {recon, Idle}
    PROVE  OInv'
<1>1. /\ World(ledger, wire, journal, outbox)'
      /\ \A s \in Runs : /\ ThreadFits(s)' /\ ResultFits(s)'
                         /\ Tracked(s) => Tracked(s)'
      /\ AckedIsRecorded'
  BY Zenon, AllQuiet
<1>2. Registry'
  BY Zenon, RegistryKept DEF Stepping, OInv, Registry
<1>3. Leases'
  BY Zenon, <1>1 DEF Leases, Tracked
<1>4. Reconciler'
  <2>1. CASE recon' = Idle
    BY Zenon, <2>1, ReconIdle
  <2>2. CASE UNCHANGED recon
    BY Zenon, <1>1, <2>2, ReconKept DEF Stepping, IInv, OInv
  <2> QED
    BY Zenon, <2>1, <2>2
<1> QED
  BY Zenon, <1>1, <1>2, <1>3, <1>4 DEF OInv

\* The leases that are there.
LEMMA TheLeases ==
    ASSUME Stepping
    PROVE  \A q \in Pipelines : lease[q] # None =>
               PipelineOf[lease[q]] = q /\ \E s \in Runs : s = lease[q] /\ Tracked(s)
<1>1. lease \in [Pipelines -> Runs \cup {None}] /\ Leases
  BY Zenon DEF Stepping, IInv, TypeOK, OInv
<1>2. \A q \in Pipelines : lease[q] # None => lease[q] \in Runs
  BY Zenon, <1>1
<1> QED
  BY Zenon, <1>1, <1>2 DEF Leases

\* The drain's POST is accepted.
LEMMA CommitStep ==
    ASSUME Stepping, commit_queued_dispatch
    PROVE  OInv'
<1>1. PICK x \in AttemptIds : x = recon.attempt
  BY Zenon DEF commit_queued_dispatch, Stepping, IInv, ReconOK
<1>2. PICK r \in Runs : r = recon.run /\ RunOf(x) = r
  BY Zenon, <1>1, AttemptParts DEF commit_queued_dispatch, Stepping, OInv, Reconciler
<1> DEFINE p == PipelineOf[r]
<1>3. PICK b : b = active_attempt_for_run(ledger, r)
  BY Zenon
<1>4. /\ manager = "up" /\ journal[x] # "absent" /\ recon' = Idle
      /\ UNCHANGED <<history, registered, manager, job, thread, wire, journal, outbox>>
  BY Zenon, <1>1 DEF commit_queued_dispatch, world
<1>5. \/ UNCHANGED <<queued, ledger, lease, status>>
      \/ /\ queued[r] = "dispatching" /\ exists(p)
         /\ queued' = [queued EXCEPT ![r] = "dispatched"]
         /\ ledger' = IF b = None THEN ledger ELSE mark_attempt_running(ledger, b)
         /\ IF history[r] = "absent"
            THEN /\ lease' = [lease EXCEPT ![p] = r]
                 /\ status' = [status EXCEPT ![p] = "running"]
            ELSE UNCHANGED <<lease, status>>
  BY Zenon, <1>2, <1>3 DEF commit_queued_dispatch
<1>6. p \in Pipelines
  BY Zenon, LedgerConstants
<1> HIDE DEF p
<1>7. CASE UNCHANGED <<queued, ledger, lease, status>>
  BY Zenon, <1>4, <1>7, QuietStep, TheLeases DEF exists, Stepping, OInv, Registry
<1>8. CASE /\ queued[r] = "dispatching" /\ exists(p)
           /\ queued' = [queued EXCEPT ![r] = "dispatched"]
           /\ ledger' = IF b = None THEN ledger ELSE mark_attempt_running(ledger, b)
           /\ IF history[r] = "absent"
              THEN /\ lease' = [lease EXCEPT ![p] = r]
                   /\ status' = [status EXCEPT ![p] = "running"]
              ELSE UNCHANGED <<lease, status>>
  <2>1. /\ ThreadFits(r) /\ ResultFits(r) /\ World(ledger, wire, journal, outbox) /\ Registry
        /\ TypeOK /\ Good(ledger)
    BY Zenon DEF Stepping, OInv, IInv, TypeOK, LedgerOwnership, Good
  <2>2. b # None => b \in AttemptIds /\ RunOf(b) = r
    BY Zenon, <1>3, ActiveAttempt
  <2>3. \/ ledger' = ledger
        \/ b \in AttemptIds /\ RunOf(b) = r /\ Moves(ledger, ledger', b, {"dispatching"}, "running")
    BY Zenon, <1>8, <2>1, <2>2, MoveFacts DEF TypeOK
  <2>4. World(ledger, wire, journal, outbox)'
    BY Zenon, <1>4, <2>1, <2>3, MoveWorld
  <2>5. /\ \A y \in AttemptIds : /\ ledger.attempt[y] \in NonTerminal => ledger'.attempt[y] \in NonTerminal
                                 /\ ledger'.attempt[y] # "absent" => ledger.attempt[y] # "absent"
                                 /\ RunOf(y) # r => ledger'.attempt[y] = ledger.attempt[y]
        /\ ledger'.intent = ledger.intent
    BY Zenon, <2>3 DEF Moves, NonTerminal, Fenced
  <2>6. /\ queued'[r] = "dispatched" /\ thread[r].pc = "done"
        /\ \A s \in Runs : s # r => queued'[s] = queued[s]
    BY Zenon, <1>8, <2>1 DEF TypeOK, ThreadFits
  <2>7. \A s \in Runs : s # r => Quiet(s)
    BY Zenon, <1>4, <2>5, <2>6 DEF Quiet
  <2>8. ThreadFits(r)' /\ ResultFits(r)'
    BY Zenon, <1>4, <1>8, <2>1, <2>6 DEF ThreadFits, ResultFits, Frozen
  <2>9. Tracked(r) => Tracked(r)'
    BY Zenon, <1>4, <2>5 DEF Tracked
  <2>10. /\ \A s \in Runs : ThreadFits(s)' /\ ResultFits(s)'
         /\ \A s \in Runs : Tracked(s) => Tracked(s)'
    BY Zenon, <2>7, <2>8, <2>9, OneRun
  <2>11. Registry'
    <3>1. \A q \in Pipelines : exists(q)' <=> exists(q)
      BY Zenon, <1>8, <2>1 DEF exists, TypeOK
    <3> QED
      BY Zenon, <1>4, <2>1, <2>5, <3>1, RegistryKept DEF Registry
  <2>12. Leases'
    <3>1. ASSUME history[r] = "absent" PROVE Tracked(r)
      <4>1. ledger.attempt[x] \in {"dispatching", "running"}
        BY Zenon, <1>1, <1>2, <3>1 DEF commit_queued_dispatch, Stepping, OInv, Reconciler
      <4> QED
        BY Zenon, <1>2, <1>4, <4>1 DEF Tracked, NonTerminal, Fenced
    <3>2. \A q \in Pipelines : \/ lease'[q] = lease[q]
                               \/ q = p /\ lease'[q] = r /\ history[r] = "absent"
      BY Zenon, <1>8, <2>1 DEF TypeOK
    <3>3. \A q \in Pipelines : lease'[q] # None =>
             PipelineOf[lease'[q]] = q /\ \E s \in Runs : s = lease'[q] /\ Tracked(s)
      BY Zenon, <3>1, <3>2, TheLeases DEF p
    <3> QED
      BY <2>10, <3>3 DEF Leases, Tracked
  <2>13. Reconciler'
    BY Zenon, <1>4, ReconIdle
  <2>14. AckedIsRecorded'
    BY Zenon, <1>4, <2>3, LedgerOrderly, AckedFrame DEF Stepping, IInv, OInv
  <2> QED
    BY Zenon, <2>4, <2>10, <2>11, <2>12, <2>13, <2>14 DEF OInv
<1> QED
  BY Zenon, <1>5, <1>7, <1>8

\* The drain's POST is refused.
LEMMA RevertStep ==
    ASSUME Stepping, revert_queued_claim
    PROVE  OInv'
<1>1. PICK x \in AttemptIds : x = recon.attempt
  BY Zenon DEF revert_queued_claim, Stepping, IInv, ReconOK
<1>2. PICK r \in Runs : r = recon.run /\ RunOf(x) = r
  BY Zenon, <1>1, AttemptParts DEF revert_queued_claim, Stepping, OInv, Reconciler
<1>3. /\ ThreadFits(r) /\ ResultFits(r) /\ World(ledger, wire, journal, outbox) /\ Registry
      /\ TypeOK /\ Good(ledger)
  BY Zenon DEF Stepping, OInv, IInv, TypeOK, LedgerOwnership, Good
<1>4. /\ manager = "up" /\ NotAccepted(x) /\ recon' = Idle
      /\ UNCHANGED <<history, registered, manager, status, job, lease, thread, journal, outbox>>
  BY Zenon, <1>1 DEF revert_queued_claim
<1>5. /\ journal[x] = "absent" /\ x \notin wire' /\ wire' \subseteq wire
      /\ \A y \in AttemptIds : y # x => (y \in wire' <=> y \in wire)
  BY Zenon, <1>3, <1>4 DEF NotAccepted, Stepping, Benign, World, Rows
<1>6. /\ ledger.attempt[x] = "dispatching" /\ ledger.intent[r] = "open" /\ queued[r] # "absent"
  BY Zenon, <1>1, <1>2, <1>5 DEF revert_queued_claim, Stepping, OInv, Reconciler
<1>7. PICK b : b = active_attempt_for_run(ledger, r)
  BY Zenon
<1>8. b = x
  <2>1. ledger.attempt[x] \in NonTerminal
    BY Zenon, <1>6 DEF NonTerminal, Fenced
  <2>2. b \in AttemptIds /\ RunOf(b) = r /\ ledger.attempt[b] \in NonTerminal
    BY Zenon, <1>2, <1>7, <2>1, ActiveAttempt
  <2> QED
    BY Zenon, <1>2, <1>3, <2>1, <2>2 DEF World, Single
<1>9. x # None
  BY Zenon, LedgerConstants
<1>10. \/ /\ queued[r] = "dispatching" /\ queued' = [queued EXCEPT ![r] = "queued"]
          /\ ledger' = terminalize_attempt(ledger, x, None)
       \/ /\ queued[r] = "cancelled" /\ UNCHANGED queued
          /\ ledger' = terminalize_attempt(ledger, x, "aborted")
  BY Zenon, <1>2, <1>7, <1>8, <1>9 DEF revert_queued_claim
<1>11. PICK o \in {None, "aborted"} :
          /\ ledger' = terminalize_attempt(ledger, x, o)
          /\ \/ o = None /\ queued[r] = "dispatching" /\ queued' = [queued EXCEPT ![r] = "queued"]
             \/ o = "aborted" /\ queued[r] = "cancelled" /\ UNCHANGED queued
  BY Zenon, <1>10
<1>12. o \in Outcomes \cup {None}
  BY Zenon DEF Outcomes
<1>13. Retires(ledger, ledger', x, o)
  BY Zenon, <1>3, <1>11, <1>12, RetireFacts DEF TypeOK
<1>14. World(ledger, wire, journal, outbox)'
  <2>1. World(ledger, wire', journal, outbox)
    BY Zenon, <1>3, <1>5, LessWorld
  <2>2. World(ledger', wire', journal, outbox)
    BY Zenon, <1>3, <1>5, <1>6, <1>12, <1>13, <2>1, RetireWorld
  <2> QED
    BY Zenon, <1>4, <2>2
<1>15. \A s \in Runs : s # r => Quiet(s)
  BY Zenon, <1>2, <1>3, <1>4, <1>5, <1>11, <1>13 DEF Quiet, Retires, TypeOK
<1>16. thread[r].pc = "done" /\ (history[r] # "absent" => queued[r] = "cancelled" /\ UNCHANGED queued)
  BY Zenon, <1>3, <1>6, <1>11 DEF ThreadFits, ResultFits, Frozen, Outcomes
<1>17. ThreadFits(r)'
  BY Zenon, <1>4, <1>16 DEF ThreadFits
<1>18. ResultFits(r)'
  BY Zenon, <1>3, <1>4, <1>5, <1>16 DEF ResultFits, Frozen
<1>19. Tracked(r) => Tracked(r)'
  <2>1. \A y \in AttemptIds : RunOf(y) = r /\ journal[y] # "absent" => ledger.attempt[y] \notin NonTerminal
    BY Zenon, <1>2, <1>3, <1>5, <1>6 DEF World, Single, NonTerminal, Fenced
  <2> QED
    BY Zenon, <1>4, <2>1 DEF Tracked
<1>20. /\ \A s \in Runs : ThreadFits(s)' /\ ResultFits(s)'
       /\ \A s \in Runs : Tracked(s) => Tracked(s)'
  BY Zenon, <1>15, <1>17, <1>18, <1>19, OneRun
<1>21. Registry'
  <2>1. \A y \in AttemptIds : ledger'.attempt[y] # "absent" => ledger.attempt[y] # "absent"
    BY Zenon, <1>13 DEF Retires, Fenced
  <2> QED
    BY Zenon, <1>3, <1>4, <2>1, RegistryKept DEF Registry, exists
<1>22. Leases' /\ Reconciler'
  BY Zenon, <1>4, <1>20, LeasesKept, ReconIdle DEF Stepping, IInv, OInv
<1>23. AckedIsRecorded'
  BY Zenon, <1>4, <1>12, <1>13, LedgerOrderly, AckedFrame DEF Stepping, IInv, OInv
<1> QED
  BY Zenon, <1>14, <1>20, <1>21, <1>22, <1>23 DEF OInv

\* stop and restart: the queued runs of the pipeline are cancelled.
LEMMA CancelStep ==
    ASSUME Stepping, NEW p \in Pipelines, manager = "up", exists(p),
           queued' = cancel_pipeline_queued(p), ledger' = abort_unowned_intents(ledger, p),
           status'[p] # "absent", \A q \in Pipelines : q # p => status'[q] = status[q],
           job' \subseteq job \cup {p},
           UNCHANGED <<history, registered, manager, lease, thread, recon, wire, journal, outbox>>
    PROVE  OInv'
<1>1. /\ World(ledger, wire, journal, outbox) /\ Registry /\ TypeOK /\ ledger \in LedgerType
  BY Zenon DEF Stepping, OInv, IInv, TypeOK
<1>2. Notes(ledger, ledger') /\ ledger'.attempt = ledger.attempt
  BY Zenon, <1>1, NotesFacts DEF Notes
<1>3. World(ledger, wire, journal, outbox)'
  BY Zenon, <1>1, <1>2, NoteWorld
<1>4. \A r \in Runs : \/ queued'[r] = queued[r]
                      \/ queued[r] \in {"queued", "dispatching"} /\ queued'[r] = "cancelled"
  BY Zenon DEF cancel_pipeline_queued, ActiveRows
<1>4a. \A r \in Runs : ledger.intent[r] \in Outcomes => ledger'.intent[r] \in Outcomes
  BY Zenon DEF Stepping, AuditKept
<1>5. ASSUME NEW r \in Runs
      PROVE  ThreadFits(r)' /\ ResultFits(r)' /\ (Tracked(r) => Tracked(r)')
  <2>1. ThreadFits(r) /\ ResultFits(r)
    BY Zenon DEF Stepping, OInv
  <2>2. ThreadFits(r)'
    BY Zenon, <1>2, <1>4, <2>1 DEF ThreadFits
  <2>3. ResultFits(r)'
    BY Zenon, <1>4, <1>4a, <2>1 DEF ResultFits, Frozen
  <2>4. Tracked(r) => Tracked(r)'
    BY Zenon, <1>2 DEF Tracked
  <2> QED
    BY Zenon, <2>2, <2>3, <2>4
<1>6. Registry'
  <2>1. \A q \in Pipelines : exists(q)' <=> exists(q)
    BY Zenon DEF exists
  <2> QED
    BY Zenon, <1>1, <1>2, <2>1, RegistryKept DEF Registry
<1>7. Leases'
  BY Zenon, <1>5, LeasesKept DEF Stepping, IInv, OInv
<1>8. Reconciler'
  <2>1. ASSUME recon.at = "drain", journal[recon.attempt] = "absent"
        PROVE  ledger'.intent[recon.run] = ledger.intent[recon.run]
    <3>1. PICK x \in AttemptIds : x = recon.attempt /\ recon.run = RunOf(x) /\ ledger.attempt[x] = "dispatching"
      BY Zenon, <2>1 DEF Stepping, OInv, Reconciler
    <3>2. ledger.attempt[x] \in NonTerminal
      BY Zenon, <3>1 DEF NonTerminal, Fenced
    <3>3. \A M : M = abort_unowned_intents(ledger, p) => M.intent[RunOf(x)] = ledger.intent[RunOf(x)]
      BY Zenon, <1>1, <3>2, OwnedIsNotAborted
    <3> QED
      BY Zenon, <3>1, <3>3
  <2>2. recon.at = "drain" => recon.run \in Runs
    BY Zenon DEF Stepping, IInv, ReconOK
  <2> QED
    BY Zenon, <1>2, <1>4, <1>5, <2>1, <2>2, ReconKept DEF Stepping, IInv, OInv
<1>9. AckedIsRecorded'
  BY Zenon, <1>2, LedgerOrderly, AckedFrame DEF Stepping, IInv, OInv
<1> QED
  BY Zenon, <1>3, <1>5, <1>6, <1>7, <1>8, <1>9 DEF OInv

-----------------------------------------------------------------------------
\* What a worker executes is in the ledger as the run's attempt.
LEMMA ActiveIsOwned ==
    ASSUME Stepping, NEW x \in AttemptIds, journal[x] = "active"
    PROVE  ledger.attempt[x] \in NonTerminal
<1>1. ledger.guard[OwnerOf(x)] = x /\ OwnerOf(x) \in Pipelines /\ x # None
  BY Zenon, AttemptParts, LedgerConstants DEF Stepping, OInv, World, Rows
<1> QED
  BY Zenon, <1>1 DEF Stepping, IInv, LedgerOwnership, GuardOwnership

\* The reconciler takes its next item, or reads before the journal query.
LEMMA ReconReadStep ==
    ASSUME Stepping,
           \/ \E p \in Pipelines : ReconTracked(p) \/ ReconUntracked(p)
           \/ MarkLostRead
           \/ \E r \in Runs : ReconExpired(r)
    PROVE  OInv'
<1>1. /\ manager = "up"
      /\ UNCHANGED <<ledger, queued, history, registered, manager, status, job, lease, thread,
                     wire, journal, outbox>>
  BY Zenon DEF ReconTracked, ReconUntracked, MarkLostRead, ReconExpired, durable, world
<1>2. /\ World(ledger, wire, journal, outbox)'
      /\ \A s \in Runs : /\ ThreadFits(s)' /\ ResultFits(s)'
                         /\ Tracked(s) => Tracked(s)'
      /\ AckedIsRecorded'
  BY Zenon, <1>1, AllQuiet
<1>3. Registry'
  BY Zenon, <1>1, RegistryKept DEF Stepping, OInv, Registry, exists
<1>4. Leases'
  BY Zenon, <1>1, <1>2, LeasesKept DEF Stepping, IInv, OInv
<1>5. ASSUME NEW p \in Pipelines, ReconTracked(p) \/ ReconUntracked(p)
      PROVE  Reconciler'
  <2>1. CASE recon'.at = "lost"
    BY Zenon, <2>1 DEF Reconciler
  <2>2. ASSUME NEW r \in RunsOf(p), ActiveOn(r) # {},
               recon' = [Idle EXCEPT !.at = "adopt", !.pipeline = p, !.run = r]
        PROVE  Reconciler'
    <3>1. PICK x \in AttemptIds : RunOf(x) = r /\ journal[x] = "active"
      BY Zenon, <2>2 DEF ActiveOn
    <3>2. r \in Runs /\ PipelineOf[r] = p
      BY Zenon DEF RunsOf
    <3>3. Tracked(r)
      BY Zenon, <3>1, ActiveIsOwned DEF Tracked
    <3>4. Tracked(r)' /\ recon'.run = r /\ recon'.at = "adopt" /\ recon'.pipeline = p
      BY Zenon, <1>2, <2>2, <3>2, <3>3 DEF Idle
    <3>5. Tracked(recon.run)'
      BY Zenon, <3>4 DEF Tracked
    <3> QED
      BY Zenon, <3>2, <3>4, <3>5 DEF Reconciler
  <2> QED
    BY Zenon, <1>5, <2>1, <2>2 DEF ReconTracked, ReconUntracked, Idle
<1>6. ASSUME MarkLostRead
      PROVE  Reconciler'
  <2>1. CASE recon' = Idle
    BY Zenon, <2>1, ReconIdle
  <2>2. CASE recon' # Idle
    <3>1. PICK p \in Pipelines : p = recon.pipeline
      BY Zenon, <1>6 DEF MarkLostRead, Stepping, IInv, ReconOK
    <3>2. /\ recon.run # None => lease[p] = recon.run
          /\ recon' = [recon EXCEPT !.at = "query", !.lease = lease[p],
                        !.attempt = IF lease[p] = None THEN None
                                    ELSE active_attempt_for_run(ledger, lease[p])]
      BY Zenon, <1>6, <2>2, <3>1 DEF MarkLostRead
    <3>3. /\ recon'.at = "query" /\ recon'.run = recon.run /\ recon'.lease = lease[p]
          /\ lease[p] # None => recon'.attempt = active_attempt_for_run(ledger, lease[p])
      BY Zenon, <3>2 DEF Stepping, IInv, TypeOK
    <3>4. CASE lease[p] = None
      BY Zenon, <3>2, <3>3, <3>4 DEF Reconciler
    <3>5. CASE lease[p] # None
      <4>1. PICK r \in Runs : r = lease[p] /\ Tracked(r)
        BY Zenon, <3>5, TheLeases
      <4>2. PICK b : b = active_attempt_for_run(ledger, r)
        BY Zenon
      <4>3. PICK t \in AttemptIds : /\ RunOf(t) = r /\ journal[t] # "absent"
                                    /\ history[r] # "absent" \/ ledger.attempt[t] \in NonTerminal
        BY Zenon, <4>1 DEF Tracked
      <4>4. \A x, y \in AttemptIds : RunOf(x) = r /\ RunOf(y) = r =>
               /\ journal[x] # "absent" /\ journal[y] # "absent" => x = y
               /\ ledger.attempt[x] \in NonTerminal /\ ledger.attempt[y] \in NonTerminal => x = y
        BY Zenon DEF Stepping, OInv, World, Single, Sent
      <4>5. \A x \in AttemptIds : RunOf(x) = r /\ ledger.attempt[x] \in NonTerminal => x = b
        BY <4>2, <4>4, ActiveAttempt
      <4>6. \A x \in AttemptIds : RunOf(x) = r =>
               /\ journal[x] = "active" => b = x
               /\ history[r] = "absent" /\ journal[x] \in {"success", "failed"} => b = x
        BY Zenon, <4>3, <4>4, <4>5, ActiveIsOwned
      <4>7. recon'.lease = r /\ recon'.attempt = b /\ Tracked(r)'
        BY Zenon, <1>2, <3>3, <3>5, <4>1, <4>2
      <4>8. Tracked(recon.lease)'
        BY Zenon, <4>7 DEF Tracked
      <4> QED
        BY Zenon, <1>1, <3>2, <3>3, <4>1, <4>6, <4>7, <4>8 DEF Reconciler
    <3> QED
      BY Zenon, <3>4, <3>5
  <2> QED
    BY Zenon, <2>1, <2>2
<1>7. ASSUME NEW r \in Runs, ReconExpired(r)
      PROVE  Reconciler'
  BY Zenon, <1>7 DEF ReconExpired, Reconciler, Idle
<1> QED
  BY Zenon, <1>2, <1>3, <1>4, <1>5, <1>6, <1>7 DEF OInv

\* Operator commands.
LEMMA OperatorInv ==
    ASSUME Stepping, OperatorStep
    PROVE  OInv'
<1>1. PICK p \in Pipelines : register(p) \/ start_pipeline(p) \/ stop_pipeline(p) \/ restart_pipeline(p)
  BY Zenon DEF OperatorStep, update, delete, Stepping, Benign
<1>2. TypeOK /\ Registry
  BY Zenon DEF Stepping, IInv, OInv
<1>3. CASE register(p)
  <2>1. /\ manager = "up" /\ manager' = "up" /\ ~exists(p)
        /\ registered' = registered \cup {p} /\ job' = job \cup {p}
        /\ status' = [status EXCEPT ![p] = "scheduled"]
        /\ UNCHANGED <<ledger, queued, history, lease, thread, recon, wire, journal, outbox>>
    BY Zenon, <1>3 DEF register, Schedule, world
  <2>2. /\ World(ledger, wire, journal, outbox)'
        /\ \A s \in Runs : /\ ThreadFits(s)' /\ ResultFits(s)'
                           /\ Tracked(s) => Tracked(s)'
        /\ AckedIsRecorded'
    BY Zenon, <2>1, AllQuiet
  <2>3. \A q \in Pipelines : exists(q)' <=> q \in registered'
    BY Zenon, <1>2, <2>1 DEF Registry, exists, TypeOK
  <2>4. Registry'
    BY Zenon, <1>2, <2>1, <2>3 DEF Registry
  <2>5. Leases'
    BY Zenon, <2>1, <2>2, LeasesKept DEF Stepping, IInv, OInv
  <2>6. Reconciler'
    BY Zenon, <2>1, <2>2, ReconKept DEF Stepping, IInv, OInv
  <2> QED
    BY Zenon, <2>2, <2>4, <2>5, <2>6 DEF OInv
<1>4. CASE start_pipeline(p)
  <2>1. /\ manager = "up" /\ exists(p) /\ job' = job \cup {p}
        /\ status' = [status EXCEPT ![p] = "scheduled"]
        /\ UNCHANGED <<ledger, queued, history, registered, manager, lease, thread, recon, wire, journal, outbox>>
    BY Zenon, <1>4 DEF start_pipeline, Schedule, world
  <2>2. \A q \in Pipelines : exists(q)' <=> exists(q)
    BY Zenon, <1>2, <2>1 DEF exists, TypeOK
  <2>3. job' \subseteq registered
    BY Zenon, <1>2, <2>1 DEF Registry
  <2> QED
    BY Zenon, <2>1, <2>2, <2>3, QuietStep, TheLeases
<1>5. CASE stop_pipeline(p) \/ restart_pipeline(p)
  <2>1. /\ manager = "up" /\ exists(p)
        /\ queued' = cancel_pipeline_queued(p) /\ ledger' = abort_unowned_intents(ledger, p)
        /\ job' \subseteq job \cup {p}
        /\ UNCHANGED <<history, registered, manager, lease, thread, recon, wire, journal, outbox>>
    BY Zenon, <1>5 DEF stop_pipeline, restart_pipeline, Schedule, world
  <2>2. status'[p] # "absent" /\ \A q \in Pipelines : q # p => status'[q] = status[q]
    BY Zenon, <1>2, <1>5 DEF stop_pipeline, restart_pipeline, Schedule, TypeOK
  <2> QED
    BY Zenon, <2>1, <2>2, CancelStep
<1> QED
  BY Zenon, <1>1, <1>3, <1>4, <1>5

\* trigger_run.
LEMMA TriggerInv ==
    ASSUME Stepping, TriggerStep
    PROVE  OInv'
<1>1. PICK p \in Pipelines : TriggerExisting(p) \/ \E r \in Runs : TriggerQueued(p, r) \/ TriggerSubmitted(p, r)
  BY Zenon DEF TriggerStep
<1>2. TypeOK /\ Registry
  BY Zenon DEF Stepping, IInv, OInv
<1>3. CASE TriggerExisting(p)
  <2>1. /\ manager = "up" /\ exists(p) /\ status' = [status EXCEPT ![p] = "queued"]
        /\ UNCHANGED <<ledger, queued, history, registered, manager, job, lease, thread, recon, wire, journal, outbox>>
    BY Zenon, <1>3 DEF TriggerExisting, durable, world
  <2>2. \A q \in Pipelines : exists(q)' <=> exists(q)
    BY Zenon, <1>2, <2>1 DEF exists, TypeOK
  <2> QED
    BY Zenon, <1>2, <2>1, <2>2, QuietStep, TheLeases DEF Registry
<1>4. ASSUME NEW r \in Runs, TriggerQueued(p, r)
      PROVE  OInv'
  <2>1. /\ manager = "up" /\ exists(p) /\ thread[r].pc = "new"
        /\ thread' = [thread EXCEPT ![r].pc = "done"]
        /\ queued' = [queued EXCEPT ![r] = "queued"]
        /\ ledger' = ensure_run_intent(ledger, r)
        /\ status' = [status EXCEPT ![p] = "queued"]
        /\ UNCHANGED <<history, registered, manager, job, lease, recon, wire, journal, outbox>>
    BY Zenon, <1>4 DEF TriggerQueued, enqueue_manual_run, world
  <2>2. \A q \in Pipelines : exists(q)' <=> exists(q)
    BY Zenon, <1>2, <2>1 DEF exists, TypeOK
  <2>3. Notes(ledger, ledger') /\ \A s \in Runs : s # r => ledger'.intent[s] = ledger.intent[s]
    BY Zenon, <1>2, <2>1, NotesFacts DEF TypeOK, ensure_run_intent, LedgerType
  <2>4. /\ thread'[r].pc = "done" /\ thread'[r].config = "current" /\ queued'[r] = "queued"
        /\ \A s \in Runs : s # r => thread'[s] = thread[s] /\ queued'[s] = queued[s]
    BY Zenon, <1>2, <2>1 DEF TypeOK, ThreadType, Registry
  <2> QED
    BY Zenon, <1>2, <2>1, <2>2, <2>3, <2>4, EndStep DEF Registry
<1>5. ASSUME NEW r \in Runs, TriggerSubmitted(p, r)
      PROVE  OInv'
  <2>1. /\ manager = "up" /\ exists(p) /\ thread[r].pc = "new" /\ PipelineOf[r] = p
        /\ thread' = [thread EXCEPT ![r] = [pc |-> "submitted", origin |-> "manual", config |-> "current"]]
        /\ UNCHANGED <<ledger, queued, history, registered, manager, status, job, lease, recon, wire, journal, outbox>>
    BY Zenon, <1>5 DEF TriggerSubmitted, durable, world
  <2>2. /\ thread'[r].pc = "submitted" /\ thread'[r].config = "current"
        /\ \A s \in Runs : s # r => thread'[s] = thread[s]
    BY Zenon, <1>2, <2>1 DEF TypeOK
  <2>3. \A s \in Runs : s # r => Quiet(s)
    BY Zenon, <2>1, <2>2 DEF Quiet
  <2>4. ThreadFits(r) /\ ResultFits(r) /\ AckedIsRecorded
    BY Zenon DEF Stepping, OInv
  <2>5. ThreadFits(r)'
    BY Zenon, <2>1, <2>2, <2>4 DEF ThreadFits
  <2>6. ResultFits(r)'
    BY Zenon, <2>1, <2>2, <2>4 DEF ResultFits, Frozen
  <2>7. Tracked(r) => Tracked(r)'
    BY Zenon, <2>1 DEF Tracked
  <2>8. /\ \A s \in Runs : ThreadFits(s)' /\ ResultFits(s)'
        /\ \A s \in Runs : Tracked(s) => Tracked(s)'
    BY Zenon, <2>3, <2>5, <2>6, <2>7, OneRun
  <2>9. World(ledger, wire, journal, outbox)'
    BY Zenon, <2>1 DEF Stepping, OInv
  <2>10. Registry'
    BY Zenon, <1>2, <2>1, <2>2, RegistryKept DEF Registry, exists
  <2>11. Leases'
    BY Zenon, <2>1, <2>8, LeasesKept DEF Stepping, IInv, OInv
  <2>12. Reconciler'
    BY Zenon, <2>1, <2>8, ReconKept DEF Stepping, IInv, OInv
  <2>13. AckedIsRecorded'
    BY Zenon, <2>1, <2>4 DEF AckedIsRecorded
  <2> QED
    BY Zenon, <2>8, <2>9, <2>10, <2>11, <2>12, <2>13 DEF OInv
<1> QED
  BY Zenon, <1>1, <1>3, <1>4, <1>5

\* The claim phase of a dispatch thread.
LEMMA ClaimPhaseInv ==
    ASSUME Stepping, NEW r \in Runs, NEW origin, manager = "up",
           thread[r].pc \in {"new", "submitted"}, exists(PipelineOf[r]),
           ClaimPhase(PipelineOf[r], r, origin),
           UNCHANGED <<queued, registered, manager, job, lease, recon, journal, outbox>>
    PROVE  OInv'
<1> DEFINE p == PipelineOf[r]
           a == <<r, 1>>
<1>0. p \in Pipelines /\ a \in AttemptIds /\ RunOf(a) = r /\ OwnerOf(a) = p
  BY Zenon, LedgerConstants, FirstAttempt
<1>1. TypeOK /\ Registry /\ ledger \in LedgerType
  BY Zenon DEF Stepping, IInv, OInv, TypeOK
<1>2. p \in registered
  BY Zenon, <1>0, <1>1 DEF Registry
<1>3. status' = [status EXCEPT ![p] = "running"]
  BY Zenon DEF ClaimPhase
<1>4. \A q \in Pipelines : exists(q)' <=> exists(q)
  BY Zenon, <1>1, <1>3 DEF exists, TypeOK
<1>5. CASE CanClaim(ledger, p, a)
  <2>1. /\ ledger' = mark_attempt_dispatching(Claim(ledger, p, a), a)
        /\ thread' = [thread EXCEPT ![r] = [pc |-> "sent", origin |-> origin, config |-> "current"]]
        /\ wire' = wire \cup {a} /\ UNCHANGED history
    BY Zenon, <1>5 DEF ClaimPhase
  <2>2. Claims(ledger, ledger', a, "dispatching")
    BY Zenon, <1>0, <1>1, <1>5, <2>1, ClaimFacts
  <2>3. /\ thread'[r].pc = "sent" /\ thread'[r].config = "current"
        /\ \A s \in Runs : s # r => thread'[s] = thread[s]
    BY Zenon, <1>1, <2>1 DEF TypeOK
  <2> QED
    BY Zenon, <1>0, <1>2, <1>4, <2>1, <2>2, <2>3, ClaimStep
<1>6. CASE ~CanClaim(ledger, p, a)
  <2>1. /\ ledger' = Claim(ledger, p, a) /\ ThreadDone(r) /\ UNCHANGED wire
        /\ history' \in {history, save_run(history, r, "failed")}
    BY Zenon, <1>6 DEF ClaimPhase
  <2>2. ledger' = ensure_run_intent(ledger, r)
    BY Zenon, <1>6, <2>1 DEF Claim, CanClaim, claim_run
  <2>3. Notes(ledger, ledger') /\ \A s \in Runs : s # r => ledger'.intent[s] = ledger.intent[s]
    BY Zenon, <1>1, <2>2, NotesFacts DEF ensure_run_intent, LedgerType
  <2>4. /\ thread'[r].pc = "done" /\ thread'[r].config = "current"
        /\ \A s \in Runs : s # r => thread'[s] = thread[s]
    BY Zenon, <1>1, <2>1 DEF ThreadDone, NewThread, TypeOK
  <2>5. /\ history'[r] \in {history[r], "failed"}
        /\ \A s \in Runs : s # r => history'[s] = history[s]
    BY Zenon, <1>1, <2>1 DEF save_run, TypeOK
  <2> QED
    BY Zenon, <1>1, <1>4, <2>1, <2>3, <2>4, <2>5, EndStep DEF Registry
<1> QED
  BY Zenon, <1>5, <1>6

\* A scheduled fire.
LEMMA FireInv ==
    ASSUME Stepping, NEW p \in Pipelines, NEW r \in Runs, Fire(p, r)
    PROVE  OInv'
<1>1. /\ manager = "up" /\ p \in job /\ PipelineOf[r] = p /\ thread[r].pc = "new"
      /\ ClaimPhase(p, r, "scheduled")
      /\ UNCHANGED <<queued, registered, manager, job, lease, recon, journal, outbox>>
  BY Zenon DEF Fire
<1>2. exists(p)
  BY Zenon, <1>1 DEF Stepping, OInv, Registry
<1> QED
  BY Zenon, <1>1, <1>2, ClaimPhaseInv

\* A refused POST did not reach the worker.
LEMMA RefusedIsKnown ==
    ASSUME Stepping, NEW a \in AttemptIds, NotAccepted(a)
    PROVE  /\ journal[a] = "absent" /\ a \notin wire' /\ wire' \subseteq wire
           /\ \A x \in AttemptIds : x # a => (x \in wire' <=> x \in wire)
BY Zenon DEF NotAccepted, Stepping, Benign, OInv, World, Rows

\* The dispatch threads.
LEMMA ThreadInv ==
    ASSUME Stepping, ThreadStep
    PROVE  OInv'
<1>1. PICK r \in Runs : \/ StartManual(r) \/ NoCapacityManual(r) \/ FallbackEnqueue(r)
                        \/ DispatchFailed(r) \/ FinalizeFailed(r) \/ DispatchAccepted(r)
  BY Zenon DEF ThreadStep
<1> DEFINE p == PipelineOf[r]
           a == <<r, 1>>
<1>2. p \in Pipelines /\ a \in AttemptIds
  BY Zenon, LedgerConstants, FirstAttempt
<1>3. TypeOK /\ Registry
  BY Zenon DEF Stepping, IInv, OInv
<1>4. thread[r].pc \notin {"new", "done"} => manager = "up" /\ exists(p)
  BY Zenon, <1>2, <1>3 DEF Registry
<1>5. ASSUME ThreadDone(r)
      PROVE  /\ thread'[r].pc = "done" /\ thread'[r].config = "current"
             /\ \A s \in Runs : s # r => thread'[s] = thread[s]
  BY Zenon, <1>3, <1>5 DEF ThreadDone, NewThread, TypeOK
<1>6. CASE StartManual(r)
  <2>1. /\ manager = "up" /\ thread[r].pc = "submitted" /\ exists(p)
        /\ UNCHANGED <<queued, registered, manager, lease, recon, journal, outbox>>
    BY Zenon, <1>4, <1>6 DEF StartManual
  <2>2. CASE /\ history' = save_run(history, r, "failed") /\ ThreadDone(r)
             /\ UNCHANGED <<ledger, job, status, wire>>
    <3>1. Notes(ledger, ledger') /\ job' \subseteq registered
      BY Zenon, <1>3, <2>2 DEF Notes, Registry
    <3>2. /\ history'[r] \in {history[r], "failed"}
          /\ \A s \in Runs : s # r => history'[s] = history[s]
      BY Zenon, <1>3, <2>2 DEF save_run, TypeOK
    <3>3. \A q \in Pipelines : exists(q)' <=> exists(q)
      BY Zenon, <2>2 DEF exists
    <3> QED
      BY Zenon, <1>5, <2>1, <2>2, <3>1, <3>2, <3>3, EndStep
  <2>3. CASE ClaimPhase(p, r, "manual") /\ UNCHANGED job
    BY Zenon, <2>1, <2>3, ClaimPhaseInv
  <2> QED
    BY Zenon, <1>6, <2>1, <2>2, <2>3 DEF StartManual
<1>7. CASE NoCapacityManual(r)
  <2>1. /\ thread[r].pc = "sent" /\ a \in wire /\ wire' = wire \ {a}
        /\ ledger' = terminalize_attempt(ledger, a, None)
        /\ thread' = [thread EXCEPT ![r].pc = "enqueue"]
        /\ UNCHANGED <<queued, history, registered, manager, status, job, lease, recon, journal, outbox>>
    BY Zenon, <1>7 DEF NoCapacityManual
  <2>2. /\ thread'[r].pc = "enqueue" /\ thread'[r].config = "current"
        /\ \A s \in Runs : s # r => thread'[s] = thread[s]
    BY Zenon, <1>3, <2>1 DEF TypeOK, ThreadType, Registry
  <2>3. journal[a] = "absent"
    BY Zenon, <1>2, <2>1 DEF Stepping, OInv, World, Rows
  <2> QED
    BY Zenon, <2>1, <2>2, <2>3, RefusedStep
<1>8. CASE DispatchFailed(r)
  <2>1. /\ thread[r].pc = "sent" /\ NotAccepted(a)
        /\ ledger' = terminalize_attempt(ledger, a, "failed")
        /\ thread' = [thread EXCEPT ![r].pc = "finalize"]
        /\ UNCHANGED <<queued, history, registered, manager, status, job, lease, recon, journal, outbox>>
    BY Zenon, <1>8 DEF DispatchFailed
  <2>2. /\ thread'[r].pc = "finalize" /\ thread'[r].config = "current"
        /\ \A s \in Runs : s # r => thread'[s] = thread[s]
    BY Zenon, <1>3, <2>1 DEF TypeOK, ThreadType, Registry
  <2>3. "failed" \in Outcomes \cup {None}
    BY Zenon DEF Outcomes
  <2> QED
    BY Zenon, <1>2, <2>1, <2>2, <2>3, RefusedIsKnown, RefusedStep
<1>9. CASE FallbackEnqueue(r)
  <2>1. /\ thread[r].pc = "enqueue" /\ ThreadDone(r) /\ manager = "up" /\ exists(p)
        /\ UNCHANGED <<registered, manager, job, lease, recon, wire, journal, outbox>>
    BY Zenon, <1>4, <1>9 DEF FallbackEnqueue, world
  <2>2. /\ status' \in {status, [status EXCEPT ![p] = "queued"]}
        /\ \/ queued' = queued /\ ledger' = ledger /\ history' \in {history, save_run(history, r, "failed")}
           \/ queued' = [queued EXCEPT ![r] = "queued"] /\ ledger' = ensure_run_intent(ledger, r)
              /\ history' = history
    BY Zenon, <1>9 DEF FallbackEnqueue, enqueue_manual_run
  <2>3. \A q \in Pipelines : exists(q)' <=> exists(q)
    BY Zenon, <1>3, <2>1, <2>2 DEF exists, TypeOK
  <2>4. Notes(ledger, ledger') /\ \A s \in Runs : s # r => ledger'.intent[s] = ledger.intent[s]
    <3>1. CASE ledger' = ledger
      BY Zenon, <3>1 DEF Notes
    <3>2. CASE ledger' = ensure_run_intent(ledger, r)
      BY Zenon, <1>3, <3>2, NotesFacts DEF TypeOK, ensure_run_intent, LedgerType
    <3> QED
      BY Zenon, <2>2, <3>1, <3>2
  <2>5. /\ \/ queued'[r] = queued[r] /\ history'[r] \in {history[r], "failed"}
           \/ queued'[r] = "queued" /\ history'[r] = history[r]
        /\ \A s \in Runs : s # r => queued'[s] = queued[s] /\ history'[s] = history[s]
    BY Zenon, <1>3, <2>2 DEF save_run, TypeOK
  <2>6. job' \subseteq registered
    BY Zenon, <1>3, <2>1 DEF Registry
  <2> QED
    BY Zenon, <1>5, <2>1, <2>3, <2>4, <2>5, <2>6, EndStep
<1>10. CASE FinalizeFailed(r)
  <2>1. /\ thread[r].pc = "finalize" /\ ThreadDone(r) /\ manager = "up"
        /\ finalize_batch_result(p, r, "failed")
        /\ UNCHANGED <<ledger, queued, registered, manager, lease, recon, wire, journal, outbox>>
    BY Zenon, <1>4, <1>10 DEF FinalizeFailed, world
  <2> HIDE DEF p
  <2>2. /\ \A q \in Pipelines : exists(q)' <=> exists(q)
        /\ job' \subseteq registered
        /\ \A s \in Runs : s # r => history'[s] = history[s]
        /\ history'[r] \in {history[r], "failed"}
    BY Zenon, <1>2, <2>1, FinalizeFacts
  <2>3. Notes(ledger, ledger')
    BY Zenon, <2>1 DEF Notes
  <2> QED
    BY Zenon, <1>5, <2>1, <2>2, <2>3, EndStep
<1>11. CASE DispatchAccepted(r)
  BY Zenon, <1>11, AcceptedStep
<1> QED
  BY Zenon, <1>1, <1>6, <1>7, <1>8, <1>9, <1>10, <1>11

-----------------------------------------------------------------------------
\* A completion delivered by the worker's outbox.
LEMMA DeliverInv ==
    ASSUME Stepping, NEW a \in AttemptIds, DeliverCompletion(a)
    PROVE  OInv'
<1>1. journal[a] \in {"success", "failed"}
  BY Zenon DEF DeliverCompletion, Stepping, IInv, OutboxHoldsResults
<1> QED
  BY Zenon, <1>1, CompletionStep DEF DeliverCompletion

\* The registry when nothing happens to it.
LEMMA SameRegistry ==
    ASSUME Stepping, UNCHANGED <<registered, status, job>>
    PROVE  job' \subseteq registered /\ \A q \in Pipelines : exists(q)' <=> exists(q)
BY Zenon DEF Stepping, OInv, Registry, exists

\* A run found on a worker is tracked again.
LEMMA AdoptStep ==
    ASSUME Stepping, adopt_active_batch_run
    PROVE  OInv'
<1>1. /\ manager = "up" /\ recon.at = "adopt" /\ recon' = Idle
      /\ UNCHANGED <<ledger, queued, history, thread, wire, journal, outbox, manager, registered, job>>
  BY Zenon DEF adopt_active_batch_run, durable, world
<1>2. PICK r \in Runs : r = recon.run
  BY Zenon, <1>1 DEF Stepping, IInv, ReconOK
<1>3. PICK p \in Pipelines : p = recon.pipeline
  BY Zenon, <1>1 DEF Stepping, IInv, ReconOK
<1>4. PipelineOf[r] = p /\ Tracked(r)
  BY Zenon, <1>1, <1>2, <1>3 DEF Stepping, OInv, Reconciler
<1>5. \/ UNCHANGED <<lease, status>>
      \/ /\ exists(p) /\ lease' = [lease EXCEPT ![p] = r]
         /\ status' = [status EXCEPT ![p] = "running"]
  BY Zenon, <1>2, <1>3 DEF adopt_active_batch_run
<1>6. \A q \in Pipelines : lease'[q] = lease[q] \/ (q = p /\ lease'[q] = r)
  BY Zenon, <1>5 DEF Stepping, IInv, TypeOK
<1>7. \A q \in Pipelines : exists(q)' <=> exists(q)
  BY Zenon, <1>5 DEF Stepping, IInv, TypeOK, exists
<1>8. job' \subseteq registered
  BY Zenon, <1>1 DEF Stepping, OInv, Registry
<1>9. \A q \in Pipelines : lease'[q] # None =>
         PipelineOf[lease'[q]] = q /\ \E s \in Runs : s = lease'[q] /\ Tracked(s)
  BY Zenon, <1>4, <1>6, TheLeases
<1> QED
  BY Zenon, <1>1, <1>7, <1>8, <1>9, QuietStep

\* The reap finds evidence in the journal.
LEMMA EvidenceStep ==
    ASSUME Stepping, MarkLostEvidence
    PROVE  OInv'
<1>1. PICK a \in AttemptIds : a = recon.attempt
  BY Zenon DEF MarkLostEvidence, Stepping, IInv, TypeOK
<1>2. /\ manager = "up" /\ recon' = Idle
      /\ UNCHANGED <<queued, registered, manager, thread, wire, journal, outbox>>
  BY Zenon DEF MarkLostEvidence, world
<1>3. CASE UNCHANGED <<ledger, history, status, job, lease>>
  <2>1. job' \subseteq registered /\ \A q \in Pipelines : exists(q)' <=> exists(q)
    BY Zenon, <1>2, <1>3, SameRegistry
  <2> QED
    BY Zenon, <1>2, <1>3, <2>1, TheLeases, QuietStep
<1>4. CASE journal[a] \in {"success", "failed"} /\ on_attempt_run_complete(a, journal[a])
  BY Zenon, <1>2, <1>4, CompletionStep
<1> QED
  BY Zenon, <1>1, <1>3, <1>4 DEF MarkLostEvidence

\* _on_run_complete of a pipeline that exists.
LEMMA RunCompleteFacts ==
    ASSUME Stepping, manager = "up", NEW p \in Pipelines, exists(p), on_run_complete(p, "failed")
    PROVE  job' \subseteq registered /\ \A q \in Pipelines : exists(q)' <=> exists(q)
BY Zenon DEF Stepping, IInv, TypeOK, OInv, Registry, on_run_complete, exists

\* The reap finds none.
LEMMA ReapStep ==
    ASSUME Stepping, MarkLostCommit
    PROVE  OInv'
<1>1. /\ manager = "up" /\ recon.at = "query" /\ recon' = Idle
      /\ UNCHANGED <<queued, registered, manager, thread, wire, journal, outbox>>
  BY Zenon DEF MarkLostCommit, world
<1>2. PICK p \in Pipelines : p = recon.pipeline
  BY Zenon, <1>1 DEF Stepping, IInv, ReconOK
<1>3. recon.run # None => recon.lease = recon.run
  BY Zenon, <1>1 DEF Stepping, OInv, Reconciler
<1>4. NoJournalEvidence(recon.attempt)
  BY Zenon DEF MarkLostCommit, Stepping, Benign
<1>5. \A q \in Pipelines : lease'[q] \in {lease[q], None}
  BY Zenon, <1>2 DEF MarkLostCommit, Stepping, IInv, TypeOK
<1>6. \A q \in Pipelines : lease'[q] # None =>
         PipelineOf[lease'[q]] = q /\ \E s \in Runs : s = lease'[q] /\ Tracked(s)
  BY Zenon, <1>5, TheLeases
<1>7. CASE UNCHANGED <<ledger, history, status, job>>
  <2>1. job' \subseteq registered /\ \A q \in Pipelines : exists(q)' <=> exists(q)
    BY Zenon, <1>1, <1>7, SameRegistry
  <2> QED
    BY Zenon, <1>1, <1>6, <1>7, <2>1, QuietStep
<1>8. CASE exists(p) /\ on_run_complete(p, "failed") /\ UNCHANGED <<ledger, history>>
  <2>1. job' \subseteq registered /\ \A q \in Pipelines : exists(q)' <=> exists(q)
    BY Zenon, <1>1, <1>8, RunCompleteFacts
  <2> QED
    BY Zenon, <1>1, <1>6, <1>8, <2>1, QuietStep
<1>9. ASSUME NEW r \in Runs, r = recon.lease, lease[p] = r, exists(p), NEW b,
             b = active_attempt_for_run(ledger, r),
             ledger' = IF b = None THEN ledger ELSE terminalize_attempt(ledger, b, "failed"),
             IF history[r] # "absent" THEN UNCHANGED <<history, status, job>>
             ELSE finalize_batch_result(p, r, "failed")
      PROVE  OInv'
  <2>1. PipelineOf[r] = p
    BY Zenon, <1>9, TheLeases, LedgerConstants
  <2> QED
    BY Zenon, <1>1, <1>4, <1>5, <1>9, <2>1, LostStep
<1>10. recon.lease \in Runs \cup {None} /\ recon.run \in Runs \cup {None}
  BY Zenon DEF Stepping, IInv, TypeOK
<1>11. PICK r \in Runs \cup {None} : r = recon.lease
  BY Zenon, <1>10
<1>12. r = IF recon.run # None THEN recon.run ELSE recon.lease
  BY Zenon, <1>3, <1>11
<1> QED
  BY Zenon, <1>2, <1>7, <1>8, <1>9, <1>11, <1>12 DEF MarkLostCommit

\* The drain claims a queued run.
LEMMA DrainClaimStep ==
    ASSUME Stepping, NEW r \in Runs, claim_queued_run(r)
    PROVE  OInv'
<1>1. PICK a \in AttemptIds : a = NextAttempt(r)
  BY Zenon, NextAttemptType DEF claim_queued_run, NextAttempt, WithinOrdinals
<1>2. RunOf(a) = r /\ OwnerOf(a) = PipelineOf[r] /\ PipelineOf[r] \in Pipelines
  BY Zenon, <1>1, LedgerConstants DEF NextAttempt
<1>3. /\ manager = "up" /\ Drainable(r) /\ CanClaim(ledger, PipelineOf[r], a)
      /\ queued' = [queued EXCEPT ![r] = "dispatching"]
      /\ ledger' = mark_attempt_dispatching(Claim(ledger, PipelineOf[r], a), a)
      /\ recon' = [Idle EXCEPT !.at = "drain", !.run = r, !.attempt = a]
      /\ wire' = wire \cup {a}
      /\ UNCHANGED <<history, registered, manager, status, job, lease, thread, journal, outbox>>
  BY Zenon, <1>1 DEF claim_queued_run
<1>4. Claims(ledger, ledger', a, "dispatching")
  BY Zenon, <1>2, <1>3, ClaimFacts DEF Stepping, IInv, TypeOK
<1>5. queued[r] = "queued" /\ PipelineOf[r] \in registered
  BY Zenon, <1>2, <1>3 DEF Drainable, Stepping, OInv, Registry
<1>6. queued'[r] = "dispatching" /\ \A s \in Runs : s # r => queued'[s] = queued[s]
  BY Zenon, <1>3 DEF Stepping, IInv, TypeOK
<1>7. thread'[r].config = "current"
  BY Zenon, <1>3 DEF Stepping, OInv, Registry
<1>8. \A q \in Pipelines : exists(q)' <=> exists(q)
  BY Zenon, <1>3 DEF exists
<1> QED
  BY Zenon, <1>2, <1>3, <1>4, <1>5, <1>6, <1>7, <1>8, ClaimStep

\* The reconciler.
LEMMA ReconInv ==
    ASSUME Stepping, ReconStep
    PROVE  OInv'
BY Zenon, ReconReadStep, AdoptStep, EvidenceStep, ReapStep, DrainClaimStep, ExpireStep, CommitStep,
   RevertStep DEF ReconStep

-----------------------------------------------------------------------------
\* The process is gone; at most one attempt was claimed, or one retired.
LEMMA LostMemory ==
    ASSUME Stepping, NEW used, MemoryLost(used), Orderly,
           UNCHANGED <<history, registered, wire, journal, outbox>>,
           World(ledger, wire, journal, outbox)',
           \A s \in Runs : queued'[s] = queued[s] \/ (queued[s] = "queued" /\ queued'[s] = "dispatching"),
           \A x \in AttemptIds : ledger'.attempt[x] # "absent" =>
               \/ ledger.attempt[x] # "absent"
               \/ thread'[RunOf(x)].pc = "done" /\ OwnerOf(x) \in registered
    PROVE  OInv'
<1>1. /\ manager' = "down" /\ job' = {} /\ recon' = Idle
      /\ \A p \in Pipelines : lease'[p] = None
  BY Zenon DEF MemoryLost
<1>2. \A r \in Runs : /\ thread'[r].config = "current" /\ thread'[r].pc \in {"new", "done"}
                      /\ thread'[r].pc = "new" => thread[r].pc = "new"
  BY Zenon DEF MemoryLost, NewThread
<1>3. Registry'
  BY Zenon, <1>1, <1>2 DEF Registry, Stepping, OInv
<1>4. ASSUME NEW r \in Runs
      PROVE  ThreadFits(r)' /\ ResultFits(r)'
  <2>1. ThreadFits(r) /\ ResultFits(r)
    BY Zenon DEF Stepping, OInv
  <2>2. <<r, 1>> \in AttemptIds /\ RunOf(<<r, 1>>) = r
    BY Zenon, FirstAttempt
  <2>3. ThreadFits(r)'
    BY Zenon, <1>2, <2>1, <2>2 DEF ThreadFits
  <2>4. Frozen(r) => Frozen(r)'
    <3>1. ledger.intent[r] \in Outcomes => ledger'.intent[r] \in Outcomes
      BY Zenon DEF Stepping, AuditKept
    <3> QED
      BY Zenon, <1>2, <3>1 DEF Frozen
  <2>5. ResultFits(r)'
    BY Zenon, <2>1, <2>4 DEF ResultFits
  <2> QED
    BY Zenon, <2>3, <2>5
<1>5. Leases'
  BY Zenon, <1>1 DEF Leases
<1>6. Reconciler'
  BY Zenon, <1>1, ReconIdle
<1>7. AckedIsRecorded'
  BY Zenon, AckedFrame DEF Stepping, IInv, OInv
<1> QED
  BY Zenon, <1>3, <1>4, <1>5, <1>6, <1>7 DEF OInv

\* The manager crashes between two transactions.
LEMMA CrashInv ==
    ASSUME Stepping, CrashStep
    PROVE  OInv'
<1>0. /\ TypeOK /\ Good(ledger) /\ Good(ledger') /\ IInv /\ AuditKept(ledger, ledger') /\ HistoryKept
      /\ World(ledger, wire, journal, outbox)
  BY Zenon DEF Stepping, IInv, TypeOK, LedgerOwnership, Good, OInv
<1>1. CASE Crash
  <2>1. MemoryLost({}) /\ UNCHANGED <<ledger, queued, history, registered, wire, journal, outbox>>
    BY Zenon, <1>1 DEF Crash, durable, world
  <2>2. Orderly
    BY Zenon, <1>0, <2>1, LedgerOrderly
  <2> QED
    BY Zenon, <1>0, <2>1, <2>2, LostMemory
<1>2. ASSUME NEW r \in Runs, NEW a \in AttemptIds, RunOf(a) = r, NEW used, MemoryLost(used),
             Claims(ledger, ledger', a, "claimed"), PipelineOf[r] \in registered,
             thread'[r].pc = "done",
             \A s \in Runs : \/ queued'[s] = queued[s]
                             \/ queued[s] = "queued" /\ queued'[s] = "dispatching",
             UNCHANGED <<history, registered, wire, journal, outbox>>
      PROVE  OInv'
  <2>1. Orderly
    BY Zenon, <1>0, <1>2, LedgerOrderly
  <2>2. World(ledger', wire, journal, outbox)
    BY Zenon, <1>0, <1>2, ClaimWorld
  <2>3. World(ledger, wire, journal, outbox)'
    BY Zenon, <1>2, <2>2
  <2>4. \A x \in AttemptIds : ledger'.attempt[x] # "absent" =>
          \/ ledger.attempt[x] # "absent"
          \/ thread'[RunOf(x)].pc = "done" /\ OwnerOf(x) \in registered
    BY Zenon, <1>2 DEF Claims
  <2> QED
    BY Zenon, <1>2, <2>1, <2>3, <2>4, LostMemory
<1>3. ASSUME NEW r \in Runs, CrashInClaim(r)
      PROVE  OInv'
  <2>1. PICK a \in AttemptIds : a = <<r, 1>>
    BY Zenon, FirstAttempt
  <2>2. /\ manager = "up" /\ exists(PipelineOf[r]) /\ CanClaim(ledger, PipelineOf[r], a)
        /\ ledger' = Claim(ledger, PipelineOf[r], a) /\ MemoryLost({r})
        /\ UNCHANGED <<queued, history, registered, wire, journal, outbox>>
    BY Zenon, <1>3, <2>1 DEF CrashInClaim, world
  <2>3. Claims(ledger, ledger', a, "claimed")
    BY Zenon, <1>0, <2>1, <2>2, ClaimFacts DEF TypeOK
  <2>4. PipelineOf[r] \in registered
    BY Zenon, <2>2, LedgerConstants DEF Stepping, OInv, Registry
  <2>5. thread'[r].pc = "done"
    BY Zenon, <2>2 DEF MemoryLost, NewThread
  <2> QED
    BY Zenon, <1>2, <2>1, <2>2, <2>3, <2>4, <2>5
<1>4. ASSUME NEW r \in Runs, CrashInQueuedClaim(r)
      PROVE  OInv'
  <2>1. PICK a \in AttemptIds : a = NextAttempt(r)
    BY Zenon, <1>4, NextAttemptType DEF CrashInQueuedClaim, NextAttempt, WithinOrdinals
  <2>2. RunOf(a) = r /\ OwnerOf(a) = PipelineOf[r]
    BY Zenon, <2>1 DEF NextAttempt
  <2>3. /\ manager = "up" /\ Drainable(r) /\ CanClaim(ledger, PipelineOf[r], a)
        /\ queued' = [queued EXCEPT ![r] = "dispatching"]
        /\ ledger' = ledger \/ ledger' = Claim(ledger, PipelineOf[r], a)
        /\ MemoryLost({})
        /\ UNCHANGED <<history, registered, wire, journal, outbox>>
    BY Zenon, <1>4, <2>1 DEF CrashInQueuedClaim, world
  <2>4. queued[r] = "queued" /\ PipelineOf[r] \in registered
    BY Zenon, <2>3, LedgerConstants DEF Drainable, Stepping, OInv, Registry
  <2>5. \A s \in Runs : \/ queued'[s] = queued[s]
                        \/ queued[s] = "queued" /\ queued'[s] = "dispatching"
    BY Zenon, <1>0, <2>3, <2>4 DEF TypeOK
  <2>6. thread[r].pc = "done"
    BY Zenon, <2>4 DEF Stepping, OInv, ThreadFits
  <2>7. thread'[r].pc = "done"
    BY Zenon, <2>3, <2>6 DEF MemoryLost, NewThread
  <2>8. CASE ledger' = Claim(ledger, PipelineOf[r], a)
    <3>1. Claims(ledger, ledger', a, "claimed")
      BY Zenon, <1>0, <2>2, <2>3, <2>8, ClaimFacts DEF TypeOK
    <3> QED
      BY Zenon, <1>2, <2>2, <2>3, <2>4, <2>5, <2>7, <3>1
  <2>9. CASE ledger' = ledger
    <3>1. Orderly
      BY Zenon, <1>0, <2>9, LedgerOrderly
    <3> QED
      BY Zenon, <1>0, <2>3, <2>5, <2>9, <3>1, LostMemory
  <2> QED
    BY Zenon, <2>3, <2>8, <2>9
<1>5. ASSUME NEW a \in AttemptIds, CrashInCompletion(a)
      PROVE  OInv'
  <2>1. /\ journal[a] \in {"success", "failed"} /\ ledger' = terminalize_attempt(ledger, a, journal[a])
        /\ MemoryLost({}) /\ UNCHANGED <<queued, history, registered, wire, journal, outbox>>
    BY Zenon, <1>0, <1>5 DEF CrashInCompletion, world, IInv, OutboxHoldsResults
  <2>2. PICK o \in Outcomes : o = journal[a]
    BY Zenon, <2>1 DEF Outcomes
  <2>3. Retires(ledger, ledger', a, o)
    BY Zenon, <1>0, <2>1, <2>2, RetireFacts DEF TypeOK
  <2>4. Orderly
    BY Zenon, <1>0, <2>3, LedgerOrderly
  <2>5. a \notin wire /\ journal[a] # "active" /\ o # None
    BY Zenon, <1>0, <2>1, <2>2, NullOutcome DEF World, Rows
  <2>6. World(ledger', wire, journal, outbox)
    BY Zenon, <1>0, <2>3, <2>5, RetireWorld
  <2>7. World(ledger, wire, journal, outbox)'
    BY Zenon, <2>1, <2>6
  <2>8. \A x \in AttemptIds : ledger'.attempt[x] # "absent" => ledger.attempt[x] # "absent"
    BY Zenon, <2>3 DEF Retires, Fenced
  <2> QED
    BY Zenon, <2>1, <2>4, <2>7, <2>8, LostMemory
<1> QED
  BY Zenon, <1>1, <1>3, <1>4, <1>5 DEF CrashStep

-----------------------------------------------------------------------------
\* Boot begins, or ends: only the queue, or only the registry, changes.
LEMMA BootEnds ==
    ASSUME Stepping, BootStart \/ BootLoad
    PROVE  OInv'
<1>1. /\ UNCHANGED <<ledger, history, registered, lease, thread, recon, wire, journal, outbox>>
      /\ manager # "up"
  BY Zenon DEF BootStart, BootLoad, durable, world
<1>2. recon = Idle /\ \A r \in Runs : thread[r].config = "current" /\ thread[r].pc \in {"new", "done"}
  BY Zenon, <1>1 DEF Stepping, OInv, Registry
<1>3. \A r \in Runs : \/ queued'[r] = queued[r]
                      \/ queued[r] = "dispatching" /\ queued'[r] = "queued"
  BY Zenon DEF BootStart, BootLoad, durable
<1>4. World(ledger, wire, journal, outbox)'
  BY Zenon, <1>1 DEF Stepping, OInv
<1>5. ASSUME NEW r \in Runs
      PROVE  ThreadFits(r)' /\ ResultFits(r)' /\ (Tracked(r) => Tracked(r)')
  <2>1. ThreadFits(r) /\ ResultFits(r)
    BY Zenon DEF Stepping, OInv
  <2>2. ThreadFits(r)'
    BY Zenon, <1>1, <1>3, <2>1 DEF ThreadFits
  <2>3. Frozen(r) => Frozen(r)'
    BY Zenon, <1>1, <1>3 DEF Frozen
  <2>4. ResultFits(r)'
    BY Zenon, <1>1, <1>3, <2>1, <2>3 DEF ResultFits
  <2>5. Tracked(r) => Tracked(r)'
    BY Zenon, <1>1 DEF Tracked
  <2> QED
    BY Zenon, <2>2, <2>4, <2>5
<1>6. Leases'
  BY Zenon, <1>1, <1>5, LeasesKept DEF Stepping, IInv, OInv
<1>7. Reconciler'
  BY Zenon, <1>1, <1>2, ReconIdle
<1>8. Orderly
  BY Zenon, <1>1, LedgerOrderly DEF Stepping
<1>9. AckedIsRecorded'
  BY Zenon, <1>1, <1>8, AckedFrame DEF Stepping, IInv, OInv
<1>10. Registry'
  <2>1. CASE BootStart
    <3>1. /\ manager' = "adopting" /\ manager = "down" /\ UNCHANGED <<status, job>>
          /\ todo' = {a \in AttemptIds : ledger.attempt[a] \in Fenced}
      BY Zenon, <2>1 DEF BootStart
    <3> QED
      BY Zenon, <1>1, <1>2, <3>1, AttemptParts DEF Stepping, OInv, Registry
  <2>2. CASE BootLoad
    <3>1. /\ manager' = "up" /\ job' \subseteq registered
          /\ \A p \in Pipelines : status'[p] # "absent" <=> p \in registered
      BY Zenon, <2>2 DEF BootLoad
    <3> QED
      BY Zenon, <1>1, <1>2, <3>1 DEF Stepping, OInv, Registry, exists
  <2> QED
    BY Zenon, <2>1, <2>2
<1> QED
  BY Zenon, <1>4, <1>5, <1>6, <1>7, <1>9, <1>10 DEF OInv

\* What boot knows of an attempt it has to resolve.
LEMMA TodoFacts ==
    ASSUME Stepping, NEW a \in AttemptIds, BootResolve(a)
    PROVE  /\ ledger.attempt[a] \in Fenced /\ lease[OwnerOf(a)] = None
           /\ ledger.guard[OwnerOf(a)] = a
           /\ thread[RunOf(a)].pc = "done" /\ ledger.intent[RunOf(a)] # "absent"
           /\ \A r \in Runs : thread[r].config = "current" /\ thread[r].pc \in {"new", "done"}
           /\ recon = Idle
           /\ \A x \in todo : x # a => OwnerOf(x) # OwnerOf(a)
<1>1. manager = "adopting" /\ a \in todo
  BY Zenon DEF BootResolve
<1>2. /\ recon = Idle /\ ledger.attempt[a] \in Fenced /\ lease[OwnerOf(a)] = None
      /\ \A r \in Runs : thread[r].config = "current" /\ thread[r].pc \in {"new", "done"}
      /\ \A x \in todo : ledger.attempt[x] \in Fenced
  BY Zenon, <1>1 DEF Stepping, OInv, Registry
<1>3. \A x \in todo : x \in AttemptIds /\ ledger.guard[OwnerOf(x)] = x
  BY Zenon, <1>2 DEF Stepping, IInv, TypeOK, LedgerOwnership, GuardOwnership
<1>4. ledger.guard[OwnerOf(a)] = a /\ \A x \in todo : x # a => OwnerOf(x) # OwnerOf(a)
  BY Zenon, <1>1, <1>3
<1>5. ledger.intent[RunOf(a)] # "absent"
  BY Zenon, <1>2 DEF Fenced, Stepping, OInv, World, Rows
<1>6. RunOf(a) \in Runs
  BY Zenon, AttemptParts
<1>7. ThreadFits(RunOf(a))
  BY Zenon, <1>6 DEF Stepping, OInv
<1>8. thread[RunOf(a)].pc = "done"
  BY Zenon, <1>2, <1>6, <1>7 DEF ThreadFits, Fenced
<1> QED
  BY Zenon, <1>2, <1>4, <1>5, <1>8

\* A resolved attempt leaves the other runs alone.
LEMMA ResolveFrame ==
    ASSUME Stepping, NEW a \in AttemptIds, NEW r \in Runs, r = RunOf(a), BootResolve(a), Orderly,
           World(ledger, wire, journal, outbox)',
           \A x \in AttemptIds : x # a => ledger'.attempt[x] = ledger.attempt[x],
           \A s \in Runs : s # r => /\ queued'[s] = queued[s] /\ history'[s] = history[s]
                                    /\ ledger'.intent[s] = ledger.intent[s],
           ResultFits(r)',
           UNCHANGED lease \/ (lease' = [lease EXCEPT ![OwnerOf(a)] = r] /\ Tracked(r)')
    PROVE  OInv'
<1>1. /\ ledger.attempt[a] \in Fenced /\ lease[OwnerOf(a)] = None /\ thread[r].pc = "done"
      /\ \A s \in Runs : thread[s].config = "current" /\ thread[s].pc \in {"new", "done"}
      /\ recon = Idle
      /\ \A x \in todo : x # a => OwnerOf(x) # OwnerOf(a)
  BY Zenon, TodoFacts
<1>2. /\ manager = "adopting" /\ todo' = todo \ {a}
      /\ UNCHANGED <<registered, manager, job, thread, recon, wire, journal, outbox>>
  BY Zenon DEF BootResolve, world
<1>3. \A s \in Runs : s # r => Quiet(s)
  BY Zenon, <1>2 DEF Quiet
<1>4. \A s \in Runs : s # r => ThreadFits(s)' /\ ResultFits(s)' /\ (Tracked(s) => Tracked(s)')
  BY Zenon, <1>3, QuietRun DEF Stepping, OInv
<1>5. ThreadFits(r)'
  BY Zenon, <1>1, <1>2 DEF ThreadFits
<1>6. \A q \in Pipelines : lease'[q] = lease[q] \/ (q = OwnerOf(a) /\ lease'[q] = r /\ Tracked(r)')
  BY Zenon DEF Stepping, IInv, TypeOK
<1>7a. ASSUME NEW q \in Pipelines, lease'[q] # None
       PROVE  PipelineOf[lease'[q]] = q /\ Tracked(lease[q])'
  <2>1. CASE q = OwnerOf(a)
    BY Zenon, <1>1, <1>6, <1>7a, <2>1
  <2>2. CASE q # OwnerOf(a)
    <3>1. lease'[q] = lease[q]
      BY Zenon, <1>6, <2>2
    <3>2. PICK s \in Runs : s = lease[q] /\ PipelineOf[s] = q /\ Tracked(s)
      BY Zenon, <1>7a, <3>1, TheLeases
    <3>3. s # r
      BY Zenon, <2>2, <3>2
    <3> QED
      BY Zenon, <1>4, <3>1, <3>2, <3>3
  <2> QED
    BY Zenon, <2>1, <2>2
<1>7. Leases'
  BY Zenon, <1>7a DEF Leases
<1>8. Reconciler'
  BY Zenon, <1>1, <1>2, ReconIdle
<1>9. AckedIsRecorded'
  BY Zenon, <1>2, AckedFrame DEF Stepping, IInv, OInv
<1>10. Registry'
  <2>1. \A x \in AttemptIds : ledger'.attempt[x] # "absent" => OwnerOf(x) \in registered
    BY Zenon, <1>1 DEF Stepping, OInv, Registry, Fenced
  <2>2. \A x \in todo' : /\ x # a /\ x \in AttemptIds /\ ledger'.attempt[x] \in Fenced
                         /\ OwnerOf(x) \in Pipelines /\ lease[OwnerOf(x)] = None
    BY Zenon, <1>2, AttemptParts DEF Stepping, IInv, TypeOK, OInv, Registry
  <2>3. \A x \in todo' : lease'[OwnerOf(x)] = None
    BY Zenon, <1>1, <1>2, <1>6, <2>2
  <2> QED
    BY Zenon, <1>1, <1>2, <2>1, <2>2, <2>3 DEF Registry, Stepping, OInv
<1> QED
  BY Zenon, <1>4, <1>5, <1>7, <1>8, <1>9, <1>10 DEF OInv

\* Boot resolves an attempt.
LEMMA ResolveInv ==
    ASSUME Stepping, NEW a \in AttemptIds, BootResolve(a)
    PROVE  OInv'
<1>0. /\ TypeOK /\ Good(ledger) /\ IInv /\ AuditKept(ledger, ledger') /\ HistoryKept
      /\ World(ledger, wire, journal, outbox)
  BY Zenon DEF Stepping, IInv, TypeOK, LedgerOwnership, Good, OInv
<1>1. PICK r \in Runs : r = RunOf(a)
  BY Zenon, AttemptParts
<1>2. ledger.attempt[a] \in Fenced /\ ledger.intent[r] # "absent" /\ thread[r].pc = "done"
  BY Zenon, <1>1, TodoFacts
<1>3. UNCHANGED <<thread, wire, journal, outbox>>
  BY Zenon DEF BootResolve, world
<1>4. ResultFits(r)
  BY Zenon DEF Stepping, OInv
<1>5. ASSUME NEW o \in Outcomes, ledger' = terminalize_attempt(ledger, a, o), queued' = cancel_queued_run(r),
             a \notin wire, journal[a] # "active", UNCHANGED lease,
             \/ UNCHANGED history
             \/ journal[a] \in {"success", "failed"} /\ history' = save_run(history, r, journal[a])
      PROVE  OInv'
  <2>1. Retires(ledger, ledger', a, o) /\ o # None
    BY Zenon, <1>0, <1>5, RetireFacts, NullOutcome DEF TypeOK
  <2>2. Orderly
    BY Zenon, <1>0, <2>1, LedgerOrderly
  <2>3. World(ledger', wire, journal, outbox)
    BY Zenon, <1>0, <1>5, <2>1, RetireWorld
  <2>4. World(ledger, wire, journal, outbox)'
    BY Zenon, <1>3, <2>3
  <2>5. ledger'.intent[r] \in Outcomes
    BY Zenon, <1>0, <1>1, <1>2, <2>1 DEF Retires, TypeOK, LedgerType, IntentStates
  <2>6. /\ \A x \in AttemptIds : x # a => ledger'.attempt[x] = ledger.attempt[x]
        /\ \A s \in Runs : s # r => ledger'.intent[s] = ledger.intent[s]
    BY Zenon, <1>1, <2>1 DEF Retires
  <2>7. /\ \A s \in Runs : s # r => queued'[s] = queued[s] /\ history'[s] = history[s]
        /\ queued[r] = "expired" => queued'[r] = "expired"
        /\ \/ history'[r] = history[r]
           \/ journal[a] \in {"success", "failed"} /\ history'[r] = journal[a]
    BY Zenon, <1>0, <1>5 DEF TypeOK, cancel_queued_run, save_run
  <2>8. \A x \in AttemptIds : RunOf(x) = r /\ journal[a] = "failed" =>
          x \notin wire /\ journal[x] \notin {"active", "success"}
    BY Zenon, <1>0, <1>1, <1>5 DEF World, Single, Sent
  <2>9. ResultFits(r)'
    BY Zenon, <1>3, <1>4, <2>5, <2>7, <2>8 DEF ResultFits, Frozen
  <2> QED
    BY Zenon, <1>1, <1>5, <2>2, <2>4, <2>6, <2>7, <2>9, ResolveFrame
<1>6. a \in wire => journal[a] = "absent"
  BY Zenon, <1>0 DEF World, Rows
<1>7. "aborted" \in Outcomes /\ "success" \in Outcomes /\ "failed" \in Outcomes
  BY Zenon DEF Outcomes
<1>8. CASE /\ ledger.attempt[a] = "claimed" /\ ledger' = terminalize_attempt(ledger, a, "aborted")
           /\ queued' = cancel_queued_run(r) /\ UNCHANGED <<history, lease>>
  <2>1. ~Sent(wire, journal, a)
    BY Zenon, <1>0, <1>8 DEF World, Rows
  <2>2. a \notin wire /\ journal[a] # "active"
    BY Zenon, <2>1 DEF Sent
  <2> QED
    BY Zenon, <1>5, <1>7, <1>8, <2>2
<1>9. CASE ledger' = mark_attempt_unknown(ledger, a) /\ UNCHANGED <<queued, history, lease>>
  <2>1. Moves(ledger, ledger', a, {"dispatching", "running"}, "unknown")
    BY Zenon, <1>0, <1>9, MoveFacts DEF TypeOK
  <2>2. Orderly
    BY Zenon, <1>0, <2>1, LedgerOrderly
  <2>3. World(ledger', wire, journal, outbox)
    BY Zenon, <1>0, <2>1, MoveWorld
  <2>4. World(ledger, wire, journal, outbox)'
    BY Zenon, <1>3, <2>3
  <2>5. /\ \A x \in AttemptIds : x # a => ledger'.attempt[x] = ledger.attempt[x]
        /\ ledger'.intent = ledger.intent
    BY Zenon, <2>1 DEF Moves
  <2>6. ResultFits(r)'
    BY Zenon, <1>3, <1>4, <1>9, <2>5 DEF ResultFits, Frozen
  <2> QED
    BY Zenon, <1>1, <1>9, <2>2, <2>4, <2>5, <2>6, ResolveFrame
<1>10. CASE /\ journal[a] \in {"success", "failed"} /\ ledger' = terminalize_attempt(ledger, a, journal[a])
            /\ history' = save_run(history, r, journal[a])
            /\ queued' = cancel_queued_run(r) /\ UNCHANGED lease
  BY Zenon, <1>5, <1>6, <1>7, <1>10
<1>11. CASE /\ journal[a] = "interrupted" /\ ledger' = terminalize_attempt(ledger, a, "aborted")
            /\ queued' = cancel_queued_run(r) /\ UNCHANGED <<history, lease>>
  BY Zenon, <1>5, <1>6, <1>7, <1>11
<1>12. CASE /\ journal[a] = "active" /\ lease' = [lease EXCEPT ![OwnerOf(a)] = r]
            /\ UNCHANGED <<ledger, queued, history>>
  <2>1. Orderly
    BY Zenon, <1>0, <1>12, LedgerOrderly
  <2>2. World(ledger, wire, journal, outbox)'
    BY Zenon, <1>0, <1>3, <1>12
  <2>3. ResultFits(r)'
    BY Zenon, <1>3, <1>4, <1>12 DEF ResultFits, Frozen
  <2>4. Tracked(r)'
    BY Zenon, <1>1, <1>2, <1>3, <1>12 DEF Tracked, NonTerminal
  <2> QED
    BY Zenon, <1>1, <1>12, <2>1, <2>2, <2>3, <2>4, ResolveFrame
<1> QED
  BY Zenon, <1>1, <1>8, <1>9, <1>10, <1>11, <1>12 DEF BootResolve

\* Boot.
LEMMA BootInv ==
    ASSUME Stepping, BootStep
    PROVE  OInv'
BY Zenon, BootEnds, ResolveInv DEF BootStep

-----------------------------------------------------------------------------
\* The workers and the network.
LEMMA WorkerInv ==
    ASSUME Stepping, WorkerStep
    PROVE  OInv'
<1>1. PICK a \in AttemptIds : WorkerAdmit(a) \/ WorkerRefuse(a) \/ WorkerFinish(a) \/ WorkerRestart(a)
  BY Zenon DEF WorkerStep
<1>2. PICK r \in Runs : r = RunOf(a)
  BY Zenon, AttemptParts
<1>3. UNCHANGED <<ledger, queued, history, registered, manager, todo, status, job, lease, thread, recon>>
  BY Zenon, <1>1 DEF WorkerAdmit, WorkerRefuse, WorkerFinish, WorkerRestart, durable, memory
<1>4. TypeOK /\ World(ledger, wire, journal, outbox) /\ ThreadFits(r) /\ ResultFits(r)
  BY Zenon DEF Stepping, IInv, OInv
<1>5. \/ /\ a \in wire /\ wire' = wire \ {a} /\ outbox' = outbox /\ journal[a] = "absent"
         /\ journal'[a] = "active" /\ \A x \in AttemptIds : x # a => journal'[x] = journal[x]
      \/ /\ a \in wire /\ wire' = wire \ {a} /\ outbox' = outbox /\ journal' = journal
      \/ /\ journal[a] = "active" /\ wire' = wire /\ outbox' = outbox \cup {a}
         /\ journal'[a] \in {"success", "failed"} /\ \A x \in AttemptIds : x # a => journal'[x] = journal[x]
      \/ /\ journal[a] = "active" /\ wire' = wire /\ outbox' = outbox
         /\ journal'[a] = "interrupted" /\ \A x \in AttemptIds : x # a => journal'[x] = journal[x]
  BY Zenon, <1>1, <1>4 DEF WorkerAdmit, WorkerRefuse, WorkerFinish, WorkerRestart, TypeOK
<1>6. World(ledger, wire', journal', outbox')
  <2>1. CASE journal' = journal /\ wire' = wire \ {a} /\ outbox' = outbox
    BY Zenon, <1>4, <2>1, LessWorld
  <2>2. CASE WorkerMoves(wire, journal, outbox, wire', journal', outbox', a)
    BY Zenon, <1>4, <2>2, WorkerWorld
  <2> QED
    BY Zenon, <1>5, <2>1, <2>2 DEF WorkerMoves
<1>7. World(ledger, wire, journal, outbox)'
  BY Zenon, <1>3, <1>6
<1>8. \A s \in Runs : s # r => Quiet(s)
  BY Zenon, <1>2, <1>3, <1>5 DEF Quiet
<1>9. \A x \in AttemptIds : Sent(wire', journal', x) => Sent(wire, journal, x)
  BY Zenon, <1>5 DEF Sent
<1>10. /\ \A x \in AttemptIds : journal'[x] = "absent" => journal[x] = "absent"
       /\ \A x \in AttemptIds : x \in wire' => x \in wire
       /\ \A x \in AttemptIds : journal'[x] \in {"active", "success"} =>
             journal[x] \in {"active", "success"} \/ x \in wire
  BY Zenon, <1>5
<1>11. ThreadFits(r)'
  BY Zenon, <1>3, <1>4, <1>9, FirstAttempt DEF ThreadFits
<1>12. ResultFits(r)'
  BY Zenon, <1>3, <1>4, <1>10 DEF ResultFits, Frozen
<1>13. Tracked(r) => Tracked(r)'
  BY Zenon, <1>3, <1>10 DEF Tracked
<1>14. /\ \A s \in Runs : ThreadFits(s)' /\ ResultFits(s)'
       /\ \A s \in Runs : Tracked(s) => Tracked(s)'
  BY Zenon, <1>8, <1>11, <1>12, <1>13, OneRun
<1>15. Registry'
  BY Zenon, <1>3 DEF Stepping, OInv, Registry, exists
<1>16. Leases'
  BY Zenon, <1>3, <1>14, LeasesKept DEF Stepping, IInv, OInv
<1>17. \A x \in AttemptIds :
          /\ journal'[x] = "active" =>
                journal[x] = "active" \/ \A y \in AttemptIds : RunOf(y) = RunOf(x) => journal[y] = "absent"
          /\ journal'[x] \in {"success", "failed"} => journal[x] \in {"active", journal'[x]}
  <2>1. a \in wire => \A y \in AttemptIds : RunOf(y) = RunOf(a) => journal[y] = "absent"
    BY Zenon, <1>4 DEF World, Rows, Single, Sent
  <2> QED
    BY Zenon, <1>5, <2>1
<1>18. Reconciler'
  BY Zenon, <1>3, <1>4, <1>10, <1>14, <1>17, ReconKept DEF Stepping, OInv
<1>19. Orderly
  BY Zenon, <1>3, LedgerOrderly DEF Stepping
<1>20. AckedIsRecorded'
  BY Zenon, <1>4, <1>5, <1>19, AckedFrame DEF Stepping, OInv
<1> QED
  BY Zenon, <1>7, <1>14, <1>15, <1>16, <1>18, <1>20 DEF OInv

-----------------------------------------------------------------------------
\* The invariant holds initially.
LEMMA OwnInit == Init => OInv
<1> SUFFICES ASSUME Init PROVE OInv
  BY Zenon
<1>1. World(ledger, wire, journal, outbox)
  BY Zenon DEF Init, EmptyLedger, World, Rows, Single, Sent, NonTerminal, Fenced
<1>2. Registry /\ Leases /\ Reconciler
  BY Zenon, AttemptParts DEF Init, EmptyLedger, NewThread, Idle, Registry, Leases, Reconciler, exists
<1>3. \A r \in Runs : ThreadFits(r) /\ ResultFits(r)
  BY Zenon, FirstAttempt DEF Init, EmptyLedger, NewThread, ThreadFits, ResultFits
<1>4. AckedIsRecorded
  BY Zenon DEF Init, AckedIsRecorded
<1> QED
  BY Zenon, <1>1, <1>2, <1>3, <1>4 DEF OInv

\* Every step, and stuttering, keeps it.
LEMMA OwnNext == Benign /\ IInv /\ OInv /\ [Next]_vars => OInv'
<1> SUFFICES ASSUME Benign, IInv, OInv, [Next]_vars
             PROVE  OInv'
  BY Zenon
<1>1. Stepping
  BY Zenon, NextInv DEF Stepping
<1>2. CASE Next
  BY Zenon, <1>1, <1>2, OperatorInv, TriggerInv, FireInv, ThreadInv, DeliverInv, ReconInv, CrashInv,
     BootInv, WorkerInv DEF Next
<1>3. CASE UNCHANGED vars
  <2>1. /\ UNCHANGED <<ledger, queued, history, thread, wire, journal, outbox>>
        /\ UNCHANGED <<registered, manager, todo, status, job, lease, recon>>
    BY Zenon, <1>3 DEF vars, durable, memory, world
  <2>2. Registry'
    BY Zenon, <1>1, <2>1 DEF Stepping, OInv, Registry, exists
  <2>3. /\ World(ledger, wire, journal, outbox)'
        /\ \A s \in Runs : /\ ThreadFits(s)' /\ ResultFits(s)'
                           /\ Tracked(s) => Tracked(s)'
        /\ AckedIsRecorded'
    BY Zenon, <1>1, <2>1, AllQuiet
  <2>4. Leases'
    BY Zenon, <1>1, <2>1, <2>3, LeasesKept DEF Stepping, IInv, OInv
  <2>5. Reconciler'
    BY Zenon, <1>1, <2>1, <2>3, ReconKept DEF Stepping, IInv, OInv
  <2> QED
    BY Zenon, <2>2, <2>3, <2>4, <2>5 DEF OInv
<1> QED
  BY Zenon, <1>2, <1>3

\* Both invariants together.
LEMMA OwnCorrect ==
    ASSUME Benign
    PROVE  Spec => [](IInv /\ OInv)
<1>1. Init => IInv /\ OInv
  BY Zenon, InitInv, OwnInit
<1>2. IInv /\ OInv /\ [Next]_vars => (IInv /\ OInv)'
  BY Zenon, NextInv, OwnNext
<1> QED
  BY <1>1, <1>2, PTL DEF Spec

(* Whatever the pipelines, the runs, the number of attempts, crashes and   *)
(* worker restarts, while nobody updates or deletes a pipeline and failures *)
(* are known to their sender: what a worker executes holds the guard of    *)
(* its pipeline, so no two workers execute one pipeline (claim_run, boot   *)
(* adoption and the reaper together).                                      *)
THEOREM OneAttemptRuns ==
    ASSUME Benign
    PROVE  Spec => []OneActiveBatchAttempt
<1>1. OInv => OneActiveBatchAttempt
  BY Zenon DEF OInv, World, Rows, OneActiveBatchAttempt
<1> QED
  BY <1>1, OwnCorrect, PTL

(* Under the same assumption no run id is executed by a second attempt:    *)
(* the drain's re-claim after a refused POST, and the re-queueing of a row *)
(* at boot, never follow an admission.                                     *)
THEOREM RunsExecuteOnce ==
    ASSUME Benign
    PROVE  Spec => []ExecutedAtMostOnce
<1>1. OInv => ExecutedAtMostOnce
  <2> SUFFICES ASSUME OInv, NEW r \in Runs, NEW m \in Ordinals, NEW n \in Ordinals,
                      journal[<<r, m>>] # "absent", journal[<<r, n>>] # "absent"
               PROVE  m = n
    BY Zenon DEF ExecutedAtMostOnce
  <2>1. <<r, m>> \in AttemptIds /\ <<r, n>> \in AttemptIds
    BY Zenon DEF AttemptIds
  <2>2. <<r, m>> = <<r, n>>
    BY Zenon, <2>1 DEF OInv, World, Single, Sent
  <2> QED
    BY Zenon, <2>2
<1> QED
  BY <1>1, OwnCorrect, PTL

(* Under the same assumption a completion the manager acknowledged is in   *)
(* the run history, has retired its attempt, resolved its intent and freed *)
(* its guard (on_attempt_run_complete), also after a crash in an earlier   *)
(* delivery.                                                               *)
THEOREM AcknowledgedIsRecorded ==
    ASSUME Benign
    PROVE  Spec => []AckedIsRecorded
<1>1. OInv => AckedIsRecorded
  BY Zenon DEF OInv
<1> QED
  BY <1>1, OwnCorrect, PTL

(* Under the same assumption a run that succeeded on a worker is never     *)
(* recorded as failed, by the reaper, by boot or by a dispatch thread; only *)
(* a row that expired in the queue is.                                     *)
THEOREM SuccessesAreReported ==
    ASSUME Benign
    PROVE  Spec => []SuccessIsReported
<1>1. OInv => SuccessIsReported
  <2> SUFFICES ASSUME OInv, NEW r \in Runs, history[r] = "failed", queued[r] # "expired", NEW n \in Ordinals
               PROVE  journal[<<r, n>>] # "success"
    BY Zenon DEF SuccessIsReported
  <2>1. <<r, n>> \in AttemptIds /\ RunOf(<<r, n>>) = r
    BY Zenon DEF AttemptIds
  <2> QED
    BY Zenon, <2>1 DEF OInv, ResultFits
<1> QED
  BY <1>1, OwnCorrect, PTL

-----------------------------------------------------------------------------
(* Reported successes are real, under every command and fault.             *)

\* No intent becomes 'success'.
NoNewSuccess(L, M) == \A r \in Runs : M.intent[r] = "success" => L.intent[r] = "success"

\* A worker completed an attempt of r with success.
Succeeded(r) == \E n \in Ordinals : journal[<<r, n>>] = "success"

\* The transactions that are told no result.
LEMMA NoSuccessOps ==
    ASSUME NEW L, L \in LedgerType
    PROVE  /\ \A r \in Runs : NoNewSuccess(L, ensure_run_intent(L, r))
           /\ \A r \in Runs : NoNewSuccess(L, resolve_intent(L, r, "expired"))
           /\ \A p \in Pipelines : /\ NoNewSuccess(L, abort_unowned_intents(L, p))
                                   /\ NoNewSuccess(L, prune_run_intents(abort_unowned_intents(L, p), p))
           /\ \A a \in AttemptIds : /\ NoNewSuccess(L, mark_attempt_running(L, a))
                                    /\ NoNewSuccess(L, mark_attempt_unknown(L, a))
<1>1. \A r \in Runs : /\ NoNewSuccess(L, ensure_run_intent(L, r))
                      /\ NoNewSuccess(L, resolve_intent(L, r, "expired"))
  BY Zenon DEF LedgerType, NoNewSuccess, ensure_run_intent, resolve_intent
<1>2. \A p \in Pipelines : /\ NoNewSuccess(L, abort_unowned_intents(L, p))
                           /\ NoNewSuccess(L, prune_run_intents(abort_unowned_intents(L, p), p))
  BY Zenon DEF LedgerType, NoNewSuccess, abort_unowned_intents, prune_run_intents
<1>3. \A a \in AttemptIds : /\ NoNewSuccess(L, mark_attempt_running(L, a))
                            /\ NoNewSuccess(L, mark_attempt_unknown(L, a))
  BY Zenon, MoveFacts DEF NoNewSuccess, Moves
<1> QED
  BY Zenon, <1>1, <1>2, <1>3

\* A claim opens an intent at most.
LEMMA ClaimNoSuccess ==
    ASSUME NEW L, L \in LedgerType, NEW a \in AttemptIds, NEW p, p = OwnerOf(a)
    PROVE  /\ NoNewSuccess(L, Claim(L, p, a))
           /\ CanClaim(L, p, a) => NoNewSuccess(L, mark_attempt_dispatching(Claim(L, p, a), a))
<1>1. CASE CanClaim(L, p, a)
  <2>1. ASSUME NEW M, NEW s, Claims(L, M, a, s)
        PROVE  NoNewSuccess(L, M)
    BY Zenon, <2>1 DEF Claims, NoNewSuccess
  <2>2. /\ Claims(L, Claim(L, p, a), a, "claimed")
        /\ Claims(L, mark_attempt_dispatching(Claim(L, p, a), a), a, "dispatching")
    BY Zenon, <1>1, ClaimFacts
  <2> QED
    BY Zenon, <2>1, <2>2
<1>2. CASE ~CanClaim(L, p, a)
  <2>1. Claim(L, p, a) = ensure_run_intent(L, RunOf(a))
    BY Zenon, <1>2 DEF Claim, CanClaim, claim_run
  <2> QED
    BY Zenon, <1>2, <2>1, NoSuccessOps, AttemptParts
<1> QED
  BY Zenon, <1>1, <1>2

\* From L to M, only the run of the attempt b can have become a success, and only
\* with the result o.
SuccessOnlyOf(L, M, b, o) ==
    \A r \in Runs : M.intent[r] = "success" =>
        L.intent[r] = "success" \/ (r = RunOf(b) /\ o = "success")

\* Retiring an attempt resolves its intent with the result it is given.
LEMMA RetireSuccess ==
    ASSUME NEW L, L \in LedgerType, NEW b \in AttemptIds, NEW o \in Outcomes \cup {None},
           NEW M, M = terminalize_attempt(L, b, o)
    PROVE  SuccessOnlyOf(L, M, b, o)
BY RetireFacts DEF Retires, SuccessOnlyOf

\* What a step tells the intents and the history.
RealStep ==
    /\ \A r \in Runs : ledger'.intent[r] = "success" => ledger.intent[r] = "success" \/ Succeeded(r)
    /\ \A r \in Runs : history'[r] = "success" => history[r] = "success" \/ Succeeded(r)

\* A completed attempt of a run is a success of that run.
LEMMA SuccessOfRun ==
    ASSUME NEW a \in AttemptIds, journal[a] = "success"
    PROVE  Succeeded(RunOf(a))
BY DEF AttemptIds, Succeeded

\* The first result of a run is the one that is kept.
LEMMA SaveFacts ==
    ASSUME TypeOK, NEW r \in Runs, NEW result, history' = save_run(history, r, result)
    PROVE  \A s \in Runs : history'[s] = "success" =>
               history[s] = "success" \/ (s = r /\ result = "success")
BY Zenon DEF save_run, TypeOK

\* A step that is told no result.
LEMMA NoResultStep ==
    ASSUME TypeOK, NoNewSuccess(ledger, ledger'),
           UNCHANGED history \/ \E r \in Runs : history' = save_run(history, r, "failed")
    PROVE  RealStep
<1>1. \A r \in Runs : history'[r] = "success" => history[r] = "success"
  BY SaveFacts
<1> QED
  BY Zenon, <1>1 DEF RealStep, NoNewSuccess

\* _finalize_batch_result.
LEMMA FinalizeSaves ==
    ASSUME NEW p, NEW r, NEW result, finalize_batch_result(p, r, result)
    PROVE  UNCHANGED history \/ history' = save_run(history, r, result)
BY Zenon DEF finalize_batch_result

\* A completion tells the run's intent and its history row the worker's result.
LEMMA CompletionReal ==
    ASSUME IInv, NEW a \in AttemptIds, journal[a] \in {"success", "failed"},
           on_attempt_run_complete(a, journal[a])
    PROVE  RealStep
<1>0. PICK r \in Runs : r = RunOf(a)
  BY Zenon, AttemptParts
<1>1. PICK o \in Outcomes : o = journal[a]
  BY Zenon DEF Outcomes
<1>2. PICK L : L = terminalize_attempt(ledger, a, o)
  BY Zenon
<1>3. PICK b : b = active_attempt_for_run(L, r)
  BY Zenon
<1>4. /\ ledger' = L \/ (b # None /\ ledger' = terminalize_attempt(L, b, o))
      /\ UNCHANGED history \/ finalize_batch_result(PipelineOf[r], r, o)
  BY Zenon, <1>0, <1>1, <1>2, <1>3 DEF on_attempt_run_complete, on_worker_run_complete
<1>5. L \in LedgerType
  BY Zenon, <1>2, TerminalizeAttempt DEF IInv, TypeOK, LedgerOwnership, Good
<1>6. b # None => b \in AttemptIds /\ RunOf(b) = r
  BY Zenon, <1>3, ActiveAttempt
<1>7. \A s \in Runs : L.intent[s] = "success" => ledger.intent[s] = "success" \/ (s = r /\ o = "success")
  <2>1. ledger \in LedgerType /\ o \in Outcomes \cup {None}
    BY Zenon DEF IInv, TypeOK
  <2>2. SuccessOnlyOf(ledger, L, a, o)
    BY Zenon, <1>2, <2>1, RetireSuccess
  <2> QED
    BY Zenon, <1>0, <2>2 DEF SuccessOnlyOf
<1>8. \A s \in Runs : ledger'.intent[s] = "success" => L.intent[s] = "success" \/ (s = r /\ o = "success")
  <2>1. CASE ledger' = L
    BY Zenon, <2>1
  <2>2. CASE b # None /\ ledger' = terminalize_attempt(L, b, o)
    <3>1. b \in AttemptIds /\ RunOf(b) = r /\ o \in Outcomes \cup {None}
      BY Zenon, <1>6, <2>2
    <3>2. SuccessOnlyOf(L, ledger', b, o)
      BY Zenon, <1>5, <2>2, <3>1, RetireSuccess
    <3> QED
      BY Zenon, <3>1, <3>2 DEF SuccessOnlyOf
  <2> QED
    BY Zenon, <1>4, <2>1, <2>2
<1>9. UNCHANGED history \/ history' = save_run(history, r, o)
  BY Zenon, <1>4, FinalizeSaves
<1>10. \A s \in Runs : history'[s] = "success" => history[s] = "success" \/ (s = r /\ o = "success")
  BY Zenon, <1>9, SaveFacts DEF IInv
<1>11. o = "success" => Succeeded(r)
  BY Zenon, <1>0, <1>1, SuccessOfRun
<1> QED
  BY Zenon, <1>7, <1>8, <1>10, <1>11 DEF RealStep

\* Every step but a worker's tells only results a worker reported.
LEMMA ManagerReal ==
    ASSUME IInv, Next, ~WorkerStep
    PROVE  RealStep
<1>0. TypeOK /\ ledger \in LedgerType
  BY Zenon DEF IInv, TypeOK
<1>1. ASSUME UNCHANGED ledger
      PROVE  NoNewSuccess(ledger, ledger')
  BY Zenon, <1>1 DEF NoNewSuccess
<1>2. ASSUME NEW b \in AttemptIds \cup {None}, NEW o \in {"failed", "aborted", None},
             ledger' = IF b = None THEN ledger ELSE terminalize_attempt(ledger, b, o)
      PROVE  NoNewSuccess(ledger, ledger')
  <2>1. o \in Outcomes \cup {None} /\ o # "success"
    BY Zenon, NullOutcome DEF Outcomes
  <2>2. CASE b = None
    BY Zenon, <1>1, <1>2, <2>2
  <2>3. CASE b # None
    <3>1. SuccessOnlyOf(ledger, ledger', b, o)
      BY Zenon, <1>0, <1>2, <2>1, <2>3, RetireSuccess
    <3> QED
      BY Zenon, <2>1, <3>1 DEF SuccessOnlyOf, NoNewSuccess
  <2> QED
    BY Zenon, <2>2, <2>3
<1>3. \A r \in Runs : active_attempt_for_run(ledger, r) \in AttemptIds \cup {None}
  BY Zenon, ActiveAttempt
<1>4. CASE OperatorStep
  <2>1. PICK p \in Pipelines : \/ register(p) \/ update(p) \/ delete(p)
                               \/ start_pipeline(p) \/ stop_pipeline(p) \/ restart_pipeline(p)
    BY Zenon, <1>4 DEF OperatorStep
  <2>2. /\ UNCHANGED history
        /\ \/ UNCHANGED ledger \/ ledger' = abort_unowned_intents(ledger, p)
           \/ ledger' = prune_run_intents(abort_unowned_intents(ledger, p), p)
    BY Zenon, <2>1 DEF register, update, delete, start_pipeline, stop_pipeline, restart_pipeline
  <2> QED
    BY Zenon, <1>0, <1>1, <2>2, NoSuccessOps, NoResultStep
<1>5. CASE TriggerStep
  <2>1. UNCHANGED history /\ (UNCHANGED ledger \/ \E r \in Runs : ledger' = ensure_run_intent(ledger, r))
    BY Zenon, <1>5 DEF TriggerStep, TriggerExisting, TriggerQueued, TriggerSubmitted, enqueue_manual_run, durable
  <2> QED
    BY Zenon, <1>0, <1>1, <2>1, NoSuccessOps, NoResultStep
<1>6. ASSUME NEW r \in Runs, NEW origin, ClaimPhase(PipelineOf[r], r, origin)
      PROVE  RealStep
  <2>1. PICK a \in AttemptIds : a = <<r, 1>>
    BY Zenon, FirstAttempt
  <2>2. /\ UNCHANGED history \/ history' = save_run(history, r, "failed")
        /\ \/ ledger' = Claim(ledger, PipelineOf[r], a)
           \/ /\ CanClaim(ledger, PipelineOf[r], a)
              /\ ledger' = mark_attempt_dispatching(Claim(ledger, PipelineOf[r], a), a)
    BY Zenon, <1>6, <2>1 DEF ClaimPhase
  <2>3. NoNewSuccess(ledger, ledger')
    BY Zenon, <1>0, <2>1, <2>2, ClaimNoSuccess
  <2> QED
    BY Zenon, <1>0, <2>2, <2>3, NoResultStep
<1>7. ASSUME NEW p \in Pipelines, NEW r \in Runs, Fire(p, r)
      PROVE  RealStep
  BY Zenon, <1>6, <1>7 DEF Fire
<1>8. ASSUME NEW r \in Runs, \/ StartManual(r) \/ NoCapacityManual(r) \/ FallbackEnqueue(r)
                             \/ DispatchFailed(r) \/ FinalizeFailed(r) \/ DispatchAccepted(r)
      PROVE  RealStep
  <2>1. PICK a \in AttemptIds : a = <<r, 1>>
    BY Zenon, FirstAttempt
  <2>2. a \in AttemptIds \cup {None} /\ a # None
    BY Zenon, LedgerConstants
  <2>3. CASE StartManual(r)
    <3>1. CASE UNCHANGED ledger /\ (UNCHANGED history \/ history' = save_run(history, r, "failed"))
      BY Zenon, <1>0, <1>1, <3>1, NoResultStep
    <3> QED
      BY Zenon, <1>6, <2>3, <3>1 DEF StartManual
  <2>4. CASE NoCapacityManual(r) \/ DispatchFailed(r)
    <3>1. UNCHANGED history /\ \E o \in {"failed", "aborted", None} : ledger' = terminalize_attempt(ledger, a, o)
      BY Zenon, <2>1, <2>4 DEF NoCapacityManual, DispatchFailed
    <3>2. NoNewSuccess(ledger, ledger')
      BY Zenon, <1>2, <2>2, <3>1
    <3> QED
      BY Zenon, <1>0, <3>1, <3>2, NoResultStep
  <2>5. CASE FallbackEnqueue(r)
    <3>1. /\ UNCHANGED history \/ history' = save_run(history, r, "failed")
          /\ UNCHANGED ledger \/ ledger' = ensure_run_intent(ledger, r)
      BY Zenon, <2>5 DEF FallbackEnqueue, enqueue_manual_run
    <3> QED
      BY Zenon, <1>0, <1>1, <3>1, NoSuccessOps, NoResultStep
  <2>6. CASE FinalizeFailed(r)
    <3>1. UNCHANGED ledger /\ (UNCHANGED history \/ history' = save_run(history, r, "failed"))
      BY Zenon, <2>6, FinalizeSaves DEF FinalizeFailed
    <3> QED
      BY Zenon, <1>0, <1>1, <3>1, NoResultStep
  <2>7. CASE DispatchAccepted(r)
    <3>1. /\ UNCHANGED history
          /\ \/ UNCHANGED ledger \/ ledger' = mark_attempt_running(ledger, a)
             \/ \E o \in {"failed", "aborted", None} : ledger' = terminalize_attempt(ledger, a, o)
      BY Zenon, <2>1, <2>7 DEF DispatchAccepted
    <3>2. NoNewSuccess(ledger, ledger')
      BY Zenon, <1>0, <1>1, <1>2, <2>2, <3>1, NoSuccessOps
    <3> QED
      BY Zenon, <1>0, <3>1, <3>2, NoResultStep
  <2> QED
    BY Zenon, <1>8, <2>3, <2>4, <2>5, <2>6, <2>7
<1>9. ASSUME NEW a \in AttemptIds, DeliverCompletion(a)
      PROVE  RealStep
  BY Zenon, <1>9, CompletionReal DEF DeliverCompletion, IInv, OutboxHoldsResults
<1>10. CASE ReconStep
  <2>1. CASE /\ UNCHANGED history
             /\ \/ UNCHANGED ledger
                \/ \E a \in AttemptIds : ledger' = mark_attempt_running(ledger, a)
                \/ \E b \in AttemptIds \cup {None}, o \in {"failed", "aborted", None} :
                      ledger' = IF b = None THEN ledger ELSE terminalize_attempt(ledger, b, o)
    <3>1. NoNewSuccess(ledger, ledger')
      BY Zenon, <1>0, <1>1, <1>2, <2>1, NoSuccessOps
    <3> QED
      BY Zenon, <1>0, <2>1, <3>1, NoResultStep
  <2>2. CASE \/ \E p \in Pipelines : ReconTracked(p) \/ ReconUntracked(p)
             \/ adopt_active_batch_run \/ MarkLostRead \/ \E r \in Runs : ReconExpired(r)
    BY Zenon, <2>1, <2>2 DEF ReconTracked, ReconUntracked, adopt_active_batch_run, MarkLostRead, ReconExpired, durable
  <2>3. CASE MarkLostEvidence
    <3>1. PICK a \in AttemptIds : a = recon.attempt
      BY Zenon, <1>0, <2>3 DEF MarkLostEvidence, TypeOK
    <3>2. CASE journal[a] \in {"success", "failed"} /\ on_attempt_run_complete(a, journal[a])
      BY Zenon, <3>2, CompletionReal
    <3> QED
      BY Zenon, <2>1, <2>3, <3>1, <3>2 DEF MarkLostEvidence
  <2>4. CASE MarkLostCommit
    <3>1. PICK p : p = recon.pipeline
      BY Zenon
    <3>2. PICK r \in Runs \cup {None} : r = IF recon.run # None THEN recon.run ELSE recon.lease
      BY Zenon, <1>0 DEF TypeOK
    <3>3. \/ UNCHANGED <<ledger, history>>
          \/ /\ r # None
             /\ ledger' = IF active_attempt_for_run(ledger, r) = None THEN ledger
                          ELSE terminalize_attempt(ledger, active_attempt_for_run(ledger, r), "failed")
             /\ UNCHANGED history \/ finalize_batch_result(p, r, "failed")
      BY Zenon, <2>4, <3>1, <3>2 DEF MarkLostCommit
    <3>4. CASE UNCHANGED <<ledger, history>>
      BY Zenon, <2>1, <3>4
    <3>5. CASE ~UNCHANGED <<ledger, history>>
      <4>1. NoNewSuccess(ledger, ledger')
        BY Zenon, <1>2, <1>3, <3>2, <3>3, <3>5
      <4>2. r \in Runs /\ (UNCHANGED history \/ history' = save_run(history, r, "failed"))
        BY Zenon, <3>2, <3>3, <3>5, FinalizeSaves
      <4> QED
        BY Zenon, <1>0, <4>1, <4>2, NoResultStep
    <3> QED
      BY Zenon, <3>4, <3>5
  <2>5. ASSUME NEW r \in Runs, claim_queued_run(r)
        PROVE  RealStep
    <3>1. PICK a \in AttemptIds : a = NextAttempt(r)
      BY Zenon, <2>5, NextAttemptType DEF claim_queued_run, NextAttempt, WithinOrdinals
    <3>2. OwnerOf(a) = PipelineOf[r]
      BY Zenon, <3>1 DEF NextAttempt
    <3>3. /\ UNCHANGED history /\ CanClaim(ledger, PipelineOf[r], a)
          /\ ledger' = mark_attempt_dispatching(Claim(ledger, PipelineOf[r], a), a)
      BY Zenon, <2>5, <3>1 DEF claim_queued_run
    <3>4. NoNewSuccess(ledger, ledger')
      BY Zenon, <1>0, <3>2, <3>3, ClaimNoSuccess
    <3> QED
      BY Zenon, <1>0, <3>3, <3>4, NoResultStep
  <2>6. CASE expire_queued_run
    <3>1. PICK r \in Runs : r = recon.run
      BY Zenon, <2>6 DEF expire_queued_run, IInv, ReconOK
    <3>2. \/ UNCHANGED <<ledger, history>>
          \/ ledger' = resolve_intent(ledger, r, "expired") /\ finalize_batch_result(PipelineOf[r], r, "failed")
      BY Zenon, <2>6, <3>1 DEF expire_queued_run
    <3>3. NoNewSuccess(ledger, ledger')
      BY Zenon, <1>0, <1>1, <3>2, NoSuccessOps
    <3>4. UNCHANGED history \/ history' = save_run(history, r, "failed")
      BY Zenon, <3>2, FinalizeSaves
    <3> QED
      BY Zenon, <1>0, <3>3, <3>4, NoResultStep
  <2>7. CASE commit_queued_dispatch \/ revert_queued_claim
    <3>1. PICK r \in Runs : r = recon.run
      BY Zenon, <2>7 DEF commit_queued_dispatch, revert_queued_claim, IInv, ReconOK
    <3>2. PICK b \in AttemptIds \cup {None} : b = active_attempt_for_run(ledger, r)
      BY Zenon, <1>3
    <3>3. /\ UNCHANGED history
          /\ \/ UNCHANGED ledger \/ (b # None /\ ledger' = mark_attempt_running(ledger, b))
             \/ \E o \in {"failed", "aborted", None} :
                   ledger' = IF b = None THEN ledger ELSE terminalize_attempt(ledger, b, o)
      BY Zenon, <2>7, <3>1, <3>2 DEF commit_queued_dispatch, revert_queued_claim
    <3> QED
      BY Zenon, <2>1, <3>3
  <2> QED
    BY Zenon, <1>10, <2>2, <2>3, <2>4, <2>5, <2>6, <2>7 DEF ReconStep

<1>11. ASSUME NEW a \in AttemptIds, NEW o \in Outcomes, o = journal[a],
              ledger' = terminalize_attempt(ledger, a, o),
              UNCHANGED history \/ history' = save_run(history, RunOf(a), o)
       PROVE  RealStep
  <2>1. RunOf(a) \in Runs /\ (o = "success" => Succeeded(RunOf(a)))
    BY Zenon, <1>11, AttemptParts, SuccessOfRun
  <2>2. SuccessOnlyOf(ledger, ledger', a, o)
    BY Zenon, <1>0, <1>11, RetireSuccess
  <2>3. \A s \in Runs : history'[s] = "success" =>
          history[s] = "success" \/ (s = RunOf(a) /\ o = "success")
    BY Zenon, <1>0, <1>11, <2>1, SaveFacts
  <2> QED
    BY Zenon, <2>1, <2>2, <2>3 DEF RealStep, SuccessOnlyOf
<1>12. \A a \in AttemptIds : journal[a] \in {"success", "failed"} => journal[a] \in Outcomes
  BY Zenon DEF Outcomes
<1>13. CASE CrashStep
  <2>1. CASE Crash
    BY Zenon, <1>0, <1>1, <2>1, NoResultStep DEF Crash, durable
  <2>2. ASSUME NEW r \in Runs, NEW a \in AttemptIds, OwnerOf(a) = PipelineOf[r], UNCHANGED history,
               ledger' \in {ledger, Claim(ledger, PipelineOf[r], a)}
        PROVE  RealStep
    <3>1. NoNewSuccess(ledger, ledger')
      BY Zenon, <1>0, <1>1, <2>2, ClaimNoSuccess
    <3> QED
      BY Zenon, <1>0, <2>2, <3>1, NoResultStep
  <2>3. ASSUME NEW r \in Runs, CrashInClaim(r)
        PROVE  RealStep
    BY Zenon, <2>2, <2>3, FirstAttempt DEF CrashInClaim
  <2>4. ASSUME NEW r \in Runs, CrashInQueuedClaim(r)
        PROVE  RealStep
    <3>1. PICK a \in AttemptIds : a = NextAttempt(r)
      BY Zenon, <2>4, NextAttemptType DEF CrashInQueuedClaim, NextAttempt, WithinOrdinals
    <3>2. OwnerOf(a) = PipelineOf[r]
      BY Zenon, <3>1 DEF NextAttempt
    <3> QED
      BY Zenon, <2>2, <2>4, <3>1, <3>2 DEF CrashInQueuedClaim
  <2>5. ASSUME NEW a \in AttemptIds, CrashInCompletion(a)
        PROVE  RealStep
    BY Zenon, <1>11, <1>12, <2>5 DEF CrashInCompletion, IInv, OutboxHoldsResults
  <2> QED
    BY Zenon, <1>13, <2>1, <2>3, <2>4, <2>5 DEF CrashStep
<1>14. CASE BootStart \/ BootLoad
  BY Zenon, <1>0, <1>1, <1>14, NoResultStep DEF BootStart, BootLoad, durable
<1>15. ASSUME NEW a \in AttemptIds, BootResolve(a)
       PROVE  RealStep
  <2>1. a \in AttemptIds \cup {None} /\ a # None
    BY Zenon, LedgerConstants
  <2>2. \/ /\ UNCHANGED history
           /\ \/ UNCHANGED ledger \/ ledger' = mark_attempt_unknown(ledger, a)
              \/ ledger' = terminalize_attempt(ledger, a, "aborted")
        \/ /\ journal[a] \in {"success", "failed"}
           /\ ledger' = terminalize_attempt(ledger, a, journal[a])
           /\ history' = save_run(history, RunOf(a), journal[a])
    BY Zenon, <1>15 DEF BootResolve
  <2>3. CASE /\ journal[a] \in {"success", "failed"}
             /\ ledger' = terminalize_attempt(ledger, a, journal[a])
             /\ history' = save_run(history, RunOf(a), journal[a])
    BY Zenon, <1>11, <1>12, <2>3
  <2>4. CASE /\ UNCHANGED history
             /\ \/ UNCHANGED ledger \/ ledger' = mark_attempt_unknown(ledger, a)
                \/ ledger' = terminalize_attempt(ledger, a, "aborted")
    <3>1. NoNewSuccess(ledger, ledger')
      BY Zenon, <1>0, <1>1, <1>2, <2>1, <2>4, NoSuccessOps
    <3> QED
      BY Zenon, <1>0, <2>4, <3>1, NoResultStep
  <2> QED
    BY Zenon, <2>2, <2>3, <2>4
<1> QED
  BY Zenon, <1>4, <1>5, <1>7, <1>8, <1>9, <1>10, <1>13, <1>14, <1>15
     DEF Next, ThreadStep, BootStep

\* A worker's result is final.
LEMMA ResultsStay ==
    ASSUME IInv, [Next]_vars, NEW x \in AttemptIds, journal[x] = "success"
    PROVE  journal'[x] = "success"
<1>1. CASE WorkerStep
  BY Zenon, <1>1 DEF WorkerStep, WorkerAdmit, WorkerRefuse, WorkerFinish, WorkerRestart, IInv, TypeOK
<1>2. CASE UNCHANGED journal
  BY Zenon, <1>2
<1>3. CASE OperatorStep \/ TriggerStep
  BY Zenon, <1>2, <1>3 DEF OperatorStep, register, update, delete, start_pipeline, stop_pipeline, restart_pipeline,
     TriggerStep, TriggerExisting, TriggerQueued, TriggerSubmitted, world
<1>4. ASSUME NEW p \in Pipelines, NEW r \in Runs, Fire(p, r)
      PROVE  UNCHANGED journal
  BY Zenon, <1>4 DEF Fire
<1>5. CASE ThreadStep
  BY Zenon, <1>2, <1>5 DEF ThreadStep, StartManual, NoCapacityManual, FallbackEnqueue, DispatchFailed,
     FinalizeFailed, DispatchAccepted, world
<1>6. ASSUME NEW a \in AttemptIds, DeliverCompletion(a)
      PROVE  UNCHANGED journal
  BY Zenon, <1>6 DEF DeliverCompletion
<1>7. CASE ReconStep
  BY Zenon, <1>2, <1>7 DEF ReconStep, ReconTracked, ReconUntracked, adopt_active_batch_run, MarkLostRead,
     MarkLostEvidence, MarkLostCommit, ReconExpired, claim_queued_run, expire_queued_run,
     commit_queued_dispatch, revert_queued_claim, world
<1>8. CASE CrashStep \/ BootStep
  BY Zenon, <1>2, <1>8 DEF CrashStep, Crash, CrashInClaim, CrashInQueuedClaim, CrashInCompletion,
     BootStep, BootStart, BootResolve, BootLoad, world
<1>9. CASE UNCHANGED vars
  BY Zenon, <1>2, <1>9 DEF vars, world
<1> QED
  BY Zenon, <1>1, <1>2, <1>3, <1>4, <1>5, <1>6, <1>7, <1>8, <1>9 DEF Next

(* Whatever the commands and faults (updates, deletes, timeouts and failed *)
(* probes included): an intent or a history row says 'success' only if a   *)
(* worker completed an attempt of that very run with success.              *)
THEOREM SuccessesAreReal == Spec => []SuccessIsReal
<1>1. Init => SuccessIsReal
  BY DEF Init, EmptyLedger, SuccessIsReal
<1>2. IInv /\ SuccessIsReal /\ [Next]_vars => SuccessIsReal'
  <2> SUFFICES ASSUME IInv, SuccessIsReal, [Next]_vars, NEW r \in Runs,
                      history'[r] = "success" \/ ledger'.intent[r] = "success"
               PROVE  \E n \in Ordinals : journal'[<<r, n>>] = "success"
    BY Zenon DEF SuccessIsReal
  <2>1. CASE WorkerStep \/ UNCHANGED vars
    <3>1. UNCHANGED <<ledger, history>>
      BY Zenon, <2>1 DEF WorkerStep, WorkerAdmit, WorkerRefuse, WorkerFinish, WorkerRestart, vars, durable
    <3>2. PICK n \in Ordinals : journal[<<r, n>>] = "success"
      BY Zenon, <3>1 DEF SuccessIsReal
    <3>3. <<r, n>> \in AttemptIds
      BY Zenon DEF AttemptIds
    <3> QED
      BY Zenon, <3>2, <3>3, ResultsStay
  <2>2. CASE Next /\ ~WorkerStep
    <3>1. Succeeded(r)
      BY Zenon, <2>2, ManagerReal DEF RealStep, SuccessIsReal, Succeeded
    <3>2. PICK n \in Ordinals : journal[<<r, n>>] = "success"
      BY Zenon, <3>1 DEF Succeeded
    <3>3. <<r, n>> \in AttemptIds
      BY Zenon DEF AttemptIds
    <3> QED
      BY Zenon, <3>2, <3>3, ResultsStay
  <2> QED
    BY Zenon, <2>1, <2>2
<1> QED
  BY <1>1, <1>2, InitInv, NextInv, PTL DEF Spec
=============================================================================
