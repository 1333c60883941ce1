--------------------------- MODULE WorkerJournal ---------------------------
(***************************************************************************)
(* The worker journal as a component: any sequence of calls of its API     *)
(* (tram/agent/journal.py) under a clock that runs and may be set back.    *)
(* WorkerServer models the calls the worker makes; this module also has    *)
(* the calls that no route makes yet (revocation, epochs, collection).     *)
(***************************************************************************)
EXTENDS JournalTables

CONSTANTS MaxTime,          \* bound: the clock
          MaxSession,       \* bound: boots of the worker
          AuditRetention,   \* TRAM_WORKER_JOURNAL_AUDIT_RETENTION_S
          ReplayRetention,  \* TRAM_WORKER_JOURNAL_REPLAY_RETENTION_S
          ClockFaults       \* the clock may be set back

ASSUME WorkerJournalConstants ==
    /\ MaxTime \in Nat
    /\ MaxSession \in Nat \ {0}

VARIABLES
    journal,   \* the tables
    clock,     \* the worker's clock
    session,   \* worker_session: minted at each boot
    (* what happened *)
    revoked,   \* attempts for which record_tombstone was called
    retired    \* tokens collected by gc_expired in the current epoch

vars == <<journal, clock, session, revoked, retired>>

Time == 0..MaxTime
Tokens == [attempt : Attempts, slot : Slots, session : 1..MaxSession, issued : Time]

TypeOK ==
    /\ journal \in JournalType
    /\ clock \in Time
    /\ session \in 1..MaxSession
    /\ revoked \subseteq Attempts
    /\ retired \subseteq Tokens

Init ==
    /\ journal = EmptyJournal
    /\ clock = 0
    /\ session = 1
    /\ revoked = {}
    /\ retired = {}

-----------------------------------------------------------------------------
Admit(tok) ==
    /\ journal' = validate_and_admit(journal, tok, session, clock)
    /\ UNCHANGED <<clock, session, revoked, retired>>

MarkRunning(a) ==
    /\ journal' = mark_running(journal, a)
    /\ UNCHANGED <<clock, session, revoked, retired>>

\* The thread of an admitted attempt, which may report more than once.
Complete(a, result) ==
    /\ \/ ReservationState(journal, a) \in {"reserved", "running"}
       \/ journal.completion[a] # None
    /\ journal' = record_completion_and_enqueue(journal, a, result)
    /\ UNCHANGED <<clock, session, revoked, retired>>

Ack(a) ==
    /\ a \in journal.outbox
    /\ journal' = mark_acked(journal, a, clock)
    /\ UNCHANGED <<clock, session, revoked, retired>>

\* The boot block of the lifespan handler.
Boot ==
    /\ session < MaxSession
    /\ session' = session + 1
    /\ journal' = respool_completions(mark_interrupted_on_boot(journal), Attempts)
    /\ UNCHANGED <<clock, revoked, retired>>

Revoke(a) ==
    /\ journal' = record_tombstone(journal, a, clock)
    /\ revoked' = revoked \cup {a}
    /\ UNCHANGED <<clock, session, retired>>

AdvanceEpoch ==
    /\ journal.epoch < MaxEpoch
    /\ journal' = advance_session_epoch(journal)
    /\ retired' = {}
    /\ UNCHANGED <<clock, session, revoked>>

RecoverClock ==
    /\ journal.epoch < MaxEpoch
    /\ journal' = recover_clock_lowering(journal, clock)
    /\ retired' = {}
    /\ UNCHANGED <<clock, session, revoked>>

Collect ==
    /\ journal' = gc_expired(journal, clock)
    /\ retired' = retired \cup {journal.auth[a].token : a \in ExpiredAuths(journal, clock)}
    /\ UNCHANGED <<clock, session, revoked>>

CleanUp ==
    /\ journal' = cleanup_retention(journal, clock, AuditRetention, ReplayRetention)
    /\ UNCHANGED <<clock, session, revoked, retired>>

Tick ==
    /\ clock < MaxTime
    /\ clock' = clock + 1
    /\ UNCHANGED <<journal, session, revoked, retired>>

ClockSetBack ==
    /\ ClockFaults
    /\ \E t \in Time : t < clock /\ clock' = t
    /\ UNCHANGED <<journal, session, revoked, retired>>

Next ==
    \/ \E tok \in Tokens : Admit(tok)
    \/ \E a \in Attempts : MarkRunning(a) \/ Ack(a) \/ Revoke(a)
    \/ \E a \in Attempts, result \in Results : Complete(a, result)
    \/ Boot \/ AdvanceEpoch \/ RecoverClock \/ Collect \/ CleanUp
    \/ Tick \/ ClockSetBack

Spec == Init /\ [][Next]_vars

-----------------------------------------------------------------------------
(* Properties.                                                             *)

(* gc_expired promises that a collected token is refused by the watermark  *)
(* alone: within its epoch it is never accepted nor answered with an old   *)
(* acceptance, wherever the clock is set.                                  *)
RetiredTokenRefused ==
    \A tok \in retired :
        AdmissionOutcome(journal, tok, session, clock) = "refused_auth"

(* record_tombstone "blocks any later admission": no token of a revoked    *)
(* attempt is admitted, not even after its tombstone was collected, in a   *)
(* later epoch, after a restart or with the clock set back.                *)
RevokedNeverAdmitted ==
    /\ TypeOK
    /\ \A tok \in Tokens : tok.attempt \in revoked =>
        AdmissionOutcome(journal, tok, session, clock) # "admitted"

(* No call removes or changes a result the manager has not acknowledged,   *)
(* and none leaves it without the outbox row that delivers it.             *)
UnackedIsKept ==
    [][\A a \in Attempts : Unacked(journal, a) =>
          /\ journal'.completion[a] # None
          /\ journal'.completion[a].result = journal.completion[a].result
          /\ Unacked(journal', a) => a \in journal'.outbox]_vars

=============================================================================
