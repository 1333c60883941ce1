-------------------------- MODULE ExecutionLedger --------------------------
(***************************************************************************)
(* The durable execution ledger of the manager: the tables                 *)
(* execution_guards, execution_attempts and run_intents, and the fenced    *)
(* SQL statements the controller runs against them                         *)
(* (tram/persistence/ledger.py, tram/pipeline/controller.py).              *)
(*                                                                         *)
(* A ledger is a record L:                                                 *)
(*   L.guard[p]    the attempt that holds pipeline p's guard, or None;     *)
(*   L.attempt[a]  the state of attempt row a, "absent" without a row;     *)
(*   L.intent[r]   "absent" without a row, "open" while final_outcome is   *)
(*                 NULL, else the final outcome.                           *)
(* Every operator below is one transaction: it maps the ledger before the  *)
(* transaction to the ledger after it.  A statement whose WHERE clause     *)
(* selects no row leaves its table alone.                                  *)
(*                                                                         *)
(* The generation column is not represented: every caller passes the       *)
(* generation it wrote into, or read from, the very row it updates, so     *)
(* that conjunct of the fences never filters a row here.                   *)
(***************************************************************************)
EXTENDS Integers, FiniteSetsExt

CONSTANTS Pipelines,    \* pipeline names, which are also the guard keys
          Runs,         \* run ids (UUID4s)
          PipelineOf,   \* the pipeline a run id is minted for
          MaxOrdinal,   \* bound: attempts of one run
          None          \* SQL NULL / Python None

Ordinals == 1..MaxOrdinal
AttemptIds == Runs \X Ordinals

ASSUME LedgerConstants ==
    /\ MaxOrdinal \in Nat \ {0}
    /\ PipelineOf \in [Runs -> Pipelines]
    /\ None \notin AttemptIds
    /\ None \notin Runs

mint_attempt_id(r, n) == <<r, n>>
RunOf(a) == a[1]
OwnerOf(a) == PipelineOf[RunOf(a)]

(* The states an attempt row moves through, and the fence of               *)
(* _terminalize_attempt ("unknown" is not in it).                          *)
Fenced == {"claimed", "dispatching", "running"}
AttemptStates == Fenced \cup {"absent", "unknown", "terminal"}
NonTerminal == Fenced \cup {"unknown"}

Outcomes == {"success", "failed", "aborted", "expired"}

\* NULL is not an outcome.
ASSUME NullOutcome == None \notin Outcomes

IntentStates == Outcomes \cup {"absent", "open"}

LedgerType ==
    [guard   : [Pipelines -> AttemptIds \cup {None}],
     attempt : [AttemptIds -> AttemptStates],
     intent  : [Runs -> IntentStates]]

EmptyLedger ==
    [guard   |-> [p \in Pipelines |-> None],
     attempt |-> [a \in AttemptIds |-> "absent"],
     intent  |-> [r \in Runs |-> "absent"]]

-----------------------------------------------------------------------------
(* Reads.                                                                  *)

ActiveAttempts(L, r) == {n \in Ordinals : L.attempt[<<r, n>>] \in NonTerminal}

\* _active_attempt_for_run: the newest attempt whose state is not 'terminal'.
active_attempt_for_run(L, r) ==
    IF ActiveAttempts(L, r) = {} THEN None ELSE <<r, Max(ActiveAttempts(L, r))>>

\* _next_attempt_ordinal: MAX(ordinal) + 1 over the run's rows.
next_attempt_ordinal(L, r) ==
    1 + Max({0} \cup {n \in Ordinals : L.attempt[<<r, n>>] # "absent"})

-----------------------------------------------------------------------------
(* Statements.                                                             *)

\* _ensure_run_intent: INSERT ... ON CONFLICT; an existing row keeps its outcome.
ensure_run_intent(L, r) ==
    [L EXCEPT !.intent[r] = IF @ = "absent" THEN "open" ELSE @]

\* Mutant: the claim does not ask whether the intent is still open.
ClaimStatusIgnoringIntent(L, p, a) ==
    CASE L.guard[p] = a                      -> "already_held"
      [] L.guard[p] \notin {None, a}         -> "lost"
      [] L.guard[p] = None /\ L.attempt[a] # "absent" -> "conflict"
      [] OTHER                               -> "claimed"

\* What claim_run reports; "conflict" is the IntegrityError of an existing row.
ClaimStatus(L, p, a) ==
    CASE L.guard[p] = a                      -> "already_held"
      [] L.guard[p] \notin {None, a}         -> "lost"
      [] L.guard[p] = None /\ L.intent[RunOf(a)] # "open"  -> "no_intent"
      [] L.guard[p] = None /\ L.intent[RunOf(a)] = "open"
           /\ L.attempt[a] # "absent"        -> "conflict"
      [] OTHER                               -> "claimed"

\* claim_run: every status but "claimed" rolls the transaction back.
claim_run(L, p, a) ==
    IF ClaimStatus(L, p, a) = "claimed"
    THEN [L EXCEPT !.guard[p] = a, !.attempt[a] = "claimed"]
    ELSE L

MoveAttempt(L, a, from, to) ==
    IF L.attempt[a] \in from THEN [L EXCEPT !.attempt[a] = to] ELSE L

\* Mutant: a state no reader of the table knows.
mark_attempt_stopping(L, a) ==
    MoveAttempt(L, a, {"dispatching", "running"}, "stopping")

mark_attempt_dispatching(L, a) == MoveAttempt(L, a, {"claimed"}, "dispatching")
mark_attempt_running(L, a) == MoveAttempt(L, a, {"dispatching"}, "running")
mark_attempt_unknown(L, a) ==
    MoveAttempt(L, a, {"dispatching", "running"}, "unknown")

\* Mutant: the final_outcome IS NULL conjunct is dropped.
overwrite_intent(L, r, outcome) == [L EXCEPT !.intent[r] = outcome]

\* Conditional on final_outcome IS NULL.
resolve_intent(L, r, outcome) ==
    [L EXCEPT !.intent[r] = IF @ = "open" THEN outcome ELSE @]

\* Mutant: released by pipeline name.
release_guard_by_name(L, p, a) == [L EXCEPT !.guard[p] = None]

\* The identity-compared guard release (also ledger.release_guard).
release_guard(L, p, a) ==
    [L EXCEPT !.guard[p] = IF @ = a THEN None ELSE @]

\* Mutant: the guard is not released with the attempt.
terminalize_keeping_guard(L, a, outcome) ==
    LET moved == MoveAttempt(L, a, Fenced, "terminal")
    IN  IF outcome = None THEN moved ELSE resolve_intent(moved, RunOf(a), outcome)

\* _terminalize_attempt: fenced attempt update, optional intent resolution
\* (outcome None resolves nothing), guard released by identity.
terminalize_attempt(L, a, outcome) ==
    LET moved    == MoveAttempt(L, a, Fenced, "terminal")
        resolved == IF outcome = None THEN moved
                    ELSE resolve_intent(moved, RunOf(a), outcome)
    IN  release_guard(resolved, OwnerOf(a), a)

\* Second statement of _terminal_cancel_pipeline_queued: open intents of p
\* without a non-terminal attempt resolve 'aborted'.
abort_unowned_intents(L, p) ==
    [L EXCEPT !.intent = [r \in Runs |->
        IF PipelineOf[r] = p /\ @[r] = "open" /\ ActiveAttempts(L, r) = {}
        THEN "aborted" ELSE @[r]]]

\* _prune_orphaned_run_intents: every open intent of p resolves 'aborted'.
prune_run_intents(L, p) ==
    [L EXCEPT !.intent = [r \in Runs |->
        IF PipelineOf[r] = p /\ @[r] = "open" THEN "aborted" ELSE @[r]]]

-----------------------------------------------------------------------------
(* What the ledger promises.                                               *)

(* Ownership: a guard is held by an attempt of its own pipeline that is    *)
(* not terminal, and every claimed, dispatching or running attempt holds   *)
(* the guard of its pipeline; hence at most one such attempt per pipeline. *)
GuardOwnership(L) ==
    /\ \A p \in Pipelines : L.guard[p] # None =>
          /\ OwnerOf(L.guard[p]) = p
          /\ L.attempt[L.guard[p]] \in NonTerminal
    /\ \A a \in AttemptIds : L.attempt[a] \in Fenced => L.guard[OwnerOf(a)] = a
(* Audit: between two ledgers no terminal attempt comes back to life and   *)
(* no resolved intent changes its outcome.                                 *)
AuditKept(L, M) ==
    /\ \A a \in AttemptIds : L.attempt[a] = "terminal" => M.attempt[a] = "terminal"
    /\ \A r \in Runs : L.intent[r] \in Outcomes => M.intent[r] = L.intent[r]

=============================================================================
