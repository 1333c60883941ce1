--------------------------- MODULE JournalTables ---------------------------
(***************************************************************************)
(* The durable journal of a worker: the SQLite tables of                   *)
(* tram/agent/journal.py and the transactions on them.                     *)
(*                                                                         *)
(* A journal is a record J:                                                *)
(*   J.reservation[a]  admission_reservations: [slot, state], or None;     *)
(*   J.auth[a]         start_authorizations: [token, epoch], or None;      *)
(*   J.tomb[a]         revocation_tombstones.revoked_at, or Never;         *)
(*   J.completion[a]   completions: [result, ackedAt], or None;            *)
(*   J.outbox          the attempts with a run-complete row in outbox;     *)
(*   J.watermark[e]    clock_watermarks of session epoch e, or Never;      *)
(*   J.epoch           the persisted session epoch.                        *)
(* Every operator is one BEGIN IMMEDIATE transaction.                      *)
(*                                                                         *)
(* The outbox has at most one row per attempt: enqueue_outbox, which could *)
(* add more, has no caller.  The result of a completion is its status; the *)
(* identity (run, generation, slot) of an attempt is one value, its slot.  *)
(* Time is counted in one unit; expiry times are issue time plus TTL.      *)
(***************************************************************************)
EXTENDS Integers

CONSTANTS Attempts,   \* attempt ids, and the keys "legacy:<run id>"
          Slots,      \* identities a token may carry for an attempt
          MaxEpoch,   \* bound: session epochs
          TTL,        \* lifetime of a start authorization
          Skew,       \* TRAM_AUTH_CLOCK_SKEW_S
          None        \* SQL NULL

Never == -1
Epochs == 1..MaxEpoch
Results == {"success", "error", "aborted"}
ReservationStates == {"reserved", "running", "completed", "interrupted"}

\* A start authorization: its signed fields without the constant TTL.
TokenType == [attempt : Attempts, slot : Slots, session : Nat, issued : Nat]
ExpiresAt(tok) == tok.issued + TTL

ReservationType == [slot : Slots, state : ReservationStates]
AuthType == [token : TokenType, epoch : Epochs]
CompletionType == [result : Results, ackedAt : Nat \cup {Never}]

\* NULL is not a row.
ASSUME JournalConstants ==
    /\ MaxEpoch \in Nat \ {0}
    /\ TTL \in Nat
    /\ Skew \in Nat
    /\ None \notin ReservationType
    /\ None \notin AuthType
    /\ None \notin CompletionType

JournalType ==
    [reservation : [Attempts -> ReservationType \cup {None}],
     auth        : [Attempts -> AuthType \cup {None}],
     tomb        : [Attempts -> Nat \cup {Never}],
     completion  : [Attempts -> CompletionType \cup {None}],
     outbox      : SUBSET Attempts,
     watermark   : [Epochs -> Nat \cup {Never}],
     epoch       : Epochs]

\* _open on a fresh file.
EmptyJournal ==
    [reservation |-> [a \in Attempts |-> None],
     auth        |-> [a \in Attempts |-> None],
     tomb        |-> [a \in Attempts |-> Never],
     completion  |-> [a \in Attempts |-> None],
     outbox      |-> {},
     watermark   |-> [e \in Epochs |-> Never],
     epoch       |-> 1]

-----------------------------------------------------------------------------
(* Reads.                                                                  *)

ReservationState(J, a) ==
    IF J.reservation[a] = None THEN "absent" ELSE J.reservation[a].state

Unacked(J, a) == J.completion[a] # None /\ J.completion[a].ackedAt = Never
Acked(J, a) == J.completion[a] # None /\ J.completion[a].ackedAt # Never

\* get_attempt with _attempt_from_reservation: the kind of the answer.
get_attempt(J, a) ==
    CASE J.tomb[a] # Never -> "tombstone"
      [] J.tomb[a] = Never /\ J.completion[a] # None -> "completion"
      [] OTHER -> CASE ReservationState(J, a) \in {"reserved", "running"} -> "active"
                    [] ReservationState(J, a) = "completed" -> "completion"
                    [] OTHER -> ReservationState(J, a)

-----------------------------------------------------------------------------
(* Admission.                                                              *)

\* validate_start_authorization, the part that depends on session and time.
\* (A token with a bad signature, or over the maximal TTL, is refused there too.)
validate_start_authorization(tok, session, now) ==
    /\ tok.session = session
    /\ tok.issued <= now + Skew
    /\ ExpiresAt(tok) >= now

\* _advance_watermark_locked: MAX(existing, now), or a first row.
advance_watermark(J, e, now) ==
    [J EXCEPT !.watermark[e] = IF @ < now THEN now ELSE @]

\* watermark_status().admitting, and the clock test of admit.
ClockAdmits(J, now) == now >= J.watermark[J.epoch] - Skew

TokenRow(J, tok) == J.auth[tok.attempt] # None /\ J.auth[tok.attempt].token = tok

\* The token's row is gone and the watermark has passed its validity window.
RetiredByWatermark(J, tok) ==
    ~TokenRow(J, tok) /\ J.watermark[J.epoch] >= ExpiresAt(tok) + Skew

\* Mutant: an interrupted reservation is taken over.
AdmitOutcomeTakeover(J, tok, now) ==
    LET a == tok.attempt
    IN  CASE ~ClockAdmits(J, now) -> "closed"
          [] J.tomb[a] # Never -> "revoked"
          [] ReservationState(J, a) \in {"absent", "interrupted"} -> "admitted"
          [] OTHER -> "already_admitted"

\* Mutant: the tombstone is not asked for.
AdmitOutcomeUnrevoked(J, tok, now) ==
    LET a == tok.attempt
    IN  CASE ~ClockAdmits(J, now) -> "closed"
          [] J.reservation[a] = None -> "admitted"
          [] OTHER -> "already_admitted"

\* admit, for a valid authorization, decided after the watermark is advanced
\* (the decisions below do not depend on that: now is at most the watermark).
AdmitOutcome(J, tok, now) ==
    LET a == tok.attempt
    IN  CASE ~ClockAdmits(J, now) -> "closed"
          [] ClockAdmits(J, now) /\ J.tomb[a] # Never -> "revoked"
          [] ClockAdmits(J, now) /\ J.tomb[a] = Never /\ J.reservation[a] = None
               -> "admitted"
          [] OTHER -> IF J.reservation[a].slot = tok.slot
                      THEN "already_admitted" ELSE "conflict"

\* validate_and_admit: what the server is told.
AdmissionOutcome(J, tok, session, now) ==
    IF \/ ~validate_start_authorization(tok, session, now)
       \/ TokenRow(J, tok) /\ J.auth[tok.attempt].epoch # J.epoch
       \/ RetiredByWatermark(J, tok)
    THEN "refused_auth"
    ELSE AdmitOutcome(J, tok, now)

\* The transaction of admit: only "admitted" commits, every other outcome
\* rolls back the watermark and the authorization row as well.
validate_and_admit(J, tok, session, now) ==
    IF AdmissionOutcome(J, tok, session, now) # "admitted" THEN J
    ELSE [advance_watermark(J, J.epoch, now) EXCEPT
            !.auth[tok.attempt] =
                IF @ = None THEN [token |-> tok, epoch |-> J.epoch] ELSE @,
            !.reservation[tok.attempt] = [slot |-> tok.slot, state |-> "reserved"]]

\* mark_running: only a reserved row moves.
mark_running(J, a) ==
    IF ReservationState(J, a) = "reserved"
    THEN [J EXCEPT !.reservation[a].state = "running"] ELSE J

-----------------------------------------------------------------------------
(* Completion and delivery.                                                *)

\* Mutant: the completion and its outbox row are two transactions.
record_completion_only(J, a, result) ==
    [J EXCEPT
        !.reservation[a] = IF @ = None THEN None ELSE [@ EXCEPT !.state = "completed"],
        !.completion[a] =
            IF @ = None THEN [result |-> result, ackedAt |-> Never] ELSE @]

\* _respool_completions_locked over the given attempts.
respool_completions(J, S) == [J EXCEPT !.outbox = @ \cup {a \in S : Unacked(J, a)}]

\* record_completion_and_enqueue: the first result wins, the reservation (if
\* there is one) is completed, an unacknowledged result gets its outbox row.
record_completion_and_enqueue(J, a, result) ==
    respool_completions(
        [J EXCEPT
            !.reservation[a] =
                IF @ = None THEN None ELSE [@ EXCEPT !.state = "completed"],
            !.completion[a] =
                IF @ = None THEN [result |-> result, ackedAt |-> Never] ELSE @],
        {a})

\* mark_acked.
mark_acked(J, a, now) ==
    [J EXCEPT
        !.completion[a] = IF Unacked(J, a) THEN [@ EXCEPT !.ackedAt = now] ELSE @,
        !.outbox = @ \ {a}]

-----------------------------------------------------------------------------
(* Boot, revocation, epochs and collection.                                *)

\* Mutant: the rows of the previous process stay active.
mark_nothing_on_boot(J) == J

\* mark_interrupted_on_boot.
mark_interrupted_on_boot(J) ==
    [J EXCEPT !.reservation = [a \in Attempts |->
        IF ReservationState(J, a) \in {"reserved", "running"}
        THEN [@[a] EXCEPT !.state = "interrupted"] ELSE @[a]]]

\* record_tombstone: INSERT OR REPLACE.
record_tombstone(J, a, now) == [J EXCEPT !.tomb[a] = now]

\* advance_session_epoch.
advance_session_epoch(J) == [J EXCEPT !.epoch = @ + 1]

\* recover_clock_lowering: a new epoch whose watermark starts at the clock.
recover_clock_lowering(J, now) ==
    advance_watermark(advance_session_epoch(J), J.epoch + 1, now)

ExpiredAuths(J, now) ==
    {a \in Attempts : J.auth[a] # None /\ ExpiresAt(J.auth[a].token) <= now - Skew}

\* Mutant: the watermark is not advanced with the deletion.
gc_without_watermark(J, now) ==
    [J EXCEPT
        !.auth = [a \in Attempts |-> IF a \in ExpiredAuths(J, now) THEN None ELSE @[a]],
        !.tomb = [a \in Attempts |-> IF a \in ExpiredAuths(J, now) THEN Never ELSE @[a]]]

\* gc_expired: the watermark first, then dead authorizations and the
\* tombstones of their attempts.
gc_expired(J, now) ==
    [advance_watermark(J, J.epoch, now) EXCEPT
        !.auth = [a \in Attempts |-> IF a \in ExpiredAuths(J, now) THEN None ELSE @[a]],
        !.tomb = [a \in Attempts |-> IF a \in ExpiredAuths(J, now) THEN Never ELSE @[a]]]

\* Mutant: completions are aged without asking for the acknowledgement.
OldAcksOrUnacked(J, cutoff) ==
    {a \in Attempts : J.completion[a] # None /\ J.completion[a].ackedAt <= cutoff}

OldAcks(J, cutoff) ==
    {a \in Attempts : Acked(J, a) /\ J.completion[a].ackedAt <= cutoff}

\* cleanup_retention with its two cutoffs.
cleanup_retention(J, now, audit, replay) ==
    LET acked    == OldAcks(J, now - audit)
        resolved == {a \in ExpiredAuths(J, now) : J.tomb[a] <= now - replay}
    IN  [advance_watermark(J, J.epoch, now) EXCEPT
            !.completion = [a \in Attempts |-> IF a \in acked THEN None ELSE @[a]],
            !.outbox = @ \ acked,
            !.tomb = [a \in Attempts |-> IF a \in resolved THEN Never ELSE @[a]]]

=============================================================================
