------------------------ MODULE WorkerJournalProofs ------------------------
(* Proofs about WorkerJournal for every set of attempts and slots, every   *)
(* TTL, skew and retention, any number of epochs and boots, and a clock    *)
(* that may be set back.                                                   *)
EXTENDS WorkerJournal, JournalLemmas

(***************************************************************************)
(* The inductive invariant.  A collected token stays below the watermark   *)
(* of its epoch and has no row; a revoked attempt has its tombstone or a   *)
(* reservation, because only attempts with an authorization row, hence     *)
(* with a reservation, lose their tombstone.                               *)
(***************************************************************************)
RetiredIsBelow ==
    \A tok \in retired :
        /\ journal.watermark[journal.epoch] >= ExpiresAt(tok) + Skew
        /\ ~TokenRow(journal, tok)

RevokedIsBlocked ==
    \A a \in revoked : journal.tomb[a] # Never \/ journal.reservation[a] # None

TokensAreOurs ==
    \A a \in Attempts : journal.auth[a] # None => journal.auth[a].token \in Tokens

Inv ==
    /\ JournalInv(journal)
    /\ clock \in Time /\ session \in 1..MaxSession
    /\ revoked \subseteq Attempts /\ retired \subseteq Tokens
    /\ TokensAreOurs /\ RevokedIsBlocked /\ RetiredIsBelow

\* The invariant contains the types.
LEMMA InvType == Inv => TypeOK
BY Zenon DEF Inv, JournalInv, TypeOK

\* A token of the model is a token, and its clock and session are numbers.
LEMMA TokenFacts ==
    /\ Tokens \subseteq TokenType
    /\ Time \subseteq Nat /\ 1..MaxSession \subseteq Nat
    /\ \A tok \in Tokens : ExpiresAt(tok) \in Nat
BY JournalConstants, WorkerJournalConstants
   DEF Tokens, TokenType, Time, ExpiresAt

\* The empty journal satisfies the invariant.
LEMMA InitInv == Init => Inv
BY EmptyJournalInv, WorkerJournalConstants
   DEF Init, Inv, Time, TokensAreOurs, RevokedIsBlocked, RetiredIsBelow, EmptyJournal

\* A retired token is refused: its row is gone and the watermark is past it.
LEMMA RetiredRefused ==
    ASSUME Inv, NEW tok \in retired
    PROVE  AdmissionOutcome(journal, tok, session, clock) = "refused_auth"
BY Zenon DEF Inv, RetiredIsBelow, AdmissionOutcome, RetiredByWatermark

\* Steps that keep the watermarks, the epoch and the tokens' rows keep the
\* retired tokens below.
LEMMA RetiredStays ==
    ASSUME Inv, JournalInv(journal'), WatermarksKept(journal, journal'),
           journal'.epoch = journal.epoch, retired' = retired,
           \A a \in Attempts : journal'.auth[a] = journal.auth[a] \/ journal'.auth[a] = None
    PROVE  RetiredIsBelow'
<1> SUFFICES ASSUME NEW tok \in retired
             PROVE  /\ journal'.watermark[journal.epoch] >= ExpiresAt(tok) + Skew
                    /\ ~TokenRow(journal', tok)
  BY Zenon DEF RetiredIsBelow
<1>1. tok \in Tokens /\ tok.attempt \in Attempts /\ ExpiresAt(tok) \in Nat
  BY Zenon, TokenFacts DEF Inv, Tokens
<1>2. /\ journal.epoch \in Epochs
      /\ journal.watermark[journal.epoch] \in Nat \cup {Never}
      /\ journal'.watermark[journal.epoch] \in Nat \cup {Never}
  BY Zenon DEF Inv, JournalInv, JournalType
<1>3. journal.watermark[journal.epoch] >= ExpiresAt(tok) + Skew /\ ~TokenRow(journal, tok)
  BY Zenon DEF Inv, RetiredIsBelow
<1>4. journal.watermark[journal.epoch] <= journal'.watermark[journal.epoch]
  BY Zenon, <1>2 DEF WatermarksKept
<1> QED
  BY <1>1, <1>2, <1>3, <1>4, JournalConstants DEF TokenRow, Never

\* Watermarks that did not change did not move back.
LEMMA SameWatermarks ==
    ASSUME NEW J, NEW K, JournalInv(J), K.watermark = J.watermark
    PROVE  WatermarksKept(J, K)
BY DEF WatermarksKept, JournalInv, JournalType, Never

\* Every step keeps the invariant.
LEMMA NextInv == Inv /\ [Next]_vars => Inv'
<1> SUFFICES ASSUME Inv, [Next]_vars PROVE Inv'
  BY Zenon
<1>0. /\ clock \in Nat /\ session \in Nat /\ JournalInv(journal)
      /\ journal \in JournalType
  BY Zenon, TokenFacts DEF Inv, JournalInv
<1>1. ASSUME NEW tok \in Tokens, Admit(tok) PROVE Inv'
  <2> DEFINE K == validate_and_admit(journal, tok, session, clock)
  <2>0. tok \in TokenType /\ tok.attempt \in Attempts
    BY Zenon, TokenFacts DEF Tokens
  <2>1. journal' = K /\ UNCHANGED <<clock, session, revoked, retired>>
    BY Zenon, <1>1 DEF Admit
  <2>2. /\ JournalInv(K) /\ ReservationsKept(journal, K) /\ WatermarksKept(journal, K)
        /\ K.epoch = journal.epoch /\ K.tomb = journal.tomb
        /\ \A a \in Attempts : K.auth[a] = journal.auth[a] \/ K.auth[a].token = tok
        /\ \/ K = journal
           \/ AdmissionOutcome(journal, tok, session, clock) = "admitted"
    <3>1. Admission(journal, tok, session, clock, K)
      BY Zenon, <1>0, <2>0, ValidateAndAdmit
    <3> QED
      BY Zenon, <3>1 DEF Admission
  <2> HIDE DEF K
  <2>3. TokensAreOurs'
    BY Zenon, <2>1, <2>2 DEF Inv, TokensAreOurs
  <2>4. RevokedIsBlocked'
    BY Zenon, <2>1, <2>2 DEF Inv, RevokedIsBlocked, ReservationsKept
  <2>5. RetiredIsBelow'
    <3>1. CASE K = journal
      BY Zenon, <2>1, <3>1 DEF Inv, RetiredIsBelow
    <3>2. CASE AdmissionOutcome(journal, tok, session, clock) = "admitted"
      <4>1. tok \notin retired
        BY Zenon, <3>2, RetiredRefused
      <4> SUFFICES ASSUME NEW t \in retired
                   PROVE  /\ journal'.watermark[journal.epoch] >= ExpiresAt(t) + Skew
                          /\ ~TokenRow(journal', t)
        BY Zenon, <2>1, <2>2 DEF RetiredIsBelow
      <4>2. t \in Tokens /\ t.attempt \in Attempts /\ ExpiresAt(t) \in Nat
        BY Zenon, TokenFacts DEF Inv, Tokens
      <4>3. ~TokenRow(journal', t)
        BY Zenon, <2>1, <2>2, <4>1, <4>2 DEF Inv, RetiredIsBelow, TokenRow
      <4>4. /\ journal.epoch \in Epochs
            /\ journal.watermark[journal.epoch] \in Nat \cup {Never}
            /\ K.watermark[journal.epoch] \in Nat \cup {Never}
        BY Zenon, <1>0, <2>2 DEF JournalInv, JournalType
      <4>5. /\ journal.watermark[journal.epoch] >= ExpiresAt(t) + Skew
            /\ journal.watermark[journal.epoch] <= K.watermark[journal.epoch]
        BY Zenon, <2>2, <4>4 DEF Inv, RetiredIsBelow, WatermarksKept
      <4> QED
        BY <2>1, <4>2, <4>3, <4>4, <4>5, JournalConstants DEF Never
    <3> QED
      BY Zenon, <2>2, <3>1, <3>2
  <2> QED
    BY Zenon, <2>1, <2>2, <2>3, <2>4, <2>5 DEF Inv
<1>2. ASSUME NEW a \in Attempts, MarkRunning(a) PROVE Inv'
  <2> DEFINE K == mark_running(journal, a)
  <2>1. journal' = K /\ UNCHANGED <<clock, session, revoked, retired>>
    BY Zenon, <1>2 DEF MarkRunning
  <2>2. /\ JournalInv(K) /\ ReservationsKept(journal, K)
        /\ K.auth = journal.auth /\ K.tomb = journal.tomb
        /\ K.watermark = journal.watermark /\ K.epoch = journal.epoch
    BY Zenon, <1>0, MarkRunningKeeps
  <2> HIDE DEF K
  <2>3. RetiredIsBelow'
    BY Zenon, <1>0, <2>1, <2>2, SameWatermarks, RetiredStays
  <2> QED
    BY Zenon, <2>1, <2>2, <2>3 DEF Inv, TokensAreOurs, RevokedIsBlocked, ReservationsKept
<1>3. ASSUME NEW a \in Attempts, NEW result \in Results, Complete(a, result) PROVE Inv'
  <2> DEFINE K == record_completion_and_enqueue(journal, a, result)
  <2>1. journal' = K /\ UNCHANGED <<clock, session, revoked, retired>>
    BY Zenon, <1>3 DEF Complete
  <2>2. /\ JournalInv(K) /\ ReservationsKept(journal, K)
        /\ K.auth = journal.auth /\ K.tomb = journal.tomb
        /\ K.watermark = journal.watermark /\ K.epoch = journal.epoch
    <3>1. Recorded(journal, a, result, K)
      BY Zenon, <1>0, RecordCompletion
    <3> QED
      BY Zenon, <3>1 DEF Recorded
  <2> HIDE DEF K
  <2>3. RetiredIsBelow'
    BY Zenon, <1>0, <2>1, <2>2, SameWatermarks, RetiredStays
  <2> QED
    BY Zenon, <2>1, <2>2, <2>3 DEF Inv, TokensAreOurs, RevokedIsBlocked, ReservationsKept
<1>4. ASSUME NEW a \in Attempts, Ack(a) PROVE Inv'
  <2> DEFINE K == mark_acked(journal, a, clock)
  <2>1. journal' = K /\ UNCHANGED <<clock, session, revoked, retired>>
    BY Zenon, <1>4 DEF Ack
  <2>2. /\ JournalInv(K)
        /\ K.auth = journal.auth /\ K.tomb = journal.tomb
        /\ K.reservation = journal.reservation
        /\ K.watermark = journal.watermark /\ K.epoch = journal.epoch
    BY <1>0, MarkAcked
  <2> HIDE DEF K
  <2>3. RetiredIsBelow'
    BY Zenon, <1>0, <2>1, <2>2, SameWatermarks, RetiredStays
  <2> QED
    BY Zenon, <2>1, <2>2, <2>3 DEF Inv, TokensAreOurs, RevokedIsBlocked
<1>5. CASE Boot
  <2> DEFINE K == respool_completions(mark_interrupted_on_boot(journal), Attempts)
  <2>1. /\ journal' = K /\ session < MaxSession /\ session' = session + 1
        /\ UNCHANGED <<clock, revoked, retired>>
    BY Zenon, <1>5 DEF Boot
  <2>2. /\ JournalInv(K) /\ ReservationsKept(journal, K)
        /\ K.auth = journal.auth /\ K.tomb = journal.tomb
        /\ K.watermark = journal.watermark /\ K.epoch = journal.epoch
    BY Zenon, <1>0, BootJournal
  <2> HIDE DEF K
  <2>3. RetiredIsBelow'
    BY Zenon, <1>0, <2>1, <2>2, SameWatermarks, RetiredStays
  <2>4. session' \in 1..MaxSession
    BY <2>1, WorkerJournalConstants DEF Inv
  <2> QED
    BY Zenon, <2>1, <2>2, <2>3, <2>4 DEF Inv, TokensAreOurs, RevokedIsBlocked, ReservationsKept
<1>6. ASSUME NEW a \in Attempts, Revoke(a) PROVE Inv'
  <2> DEFINE K == record_tombstone(journal, a, clock)
  <2>1. /\ journal' = K /\ revoked' = revoked \cup {a}
        /\ UNCHANGED <<clock, session, retired>>
    BY Zenon, <1>6 DEF Revoke
  <2>2. /\ JournalInv(K)
        /\ K.auth = journal.auth /\ K.reservation = journal.reservation
        /\ K.watermark = journal.watermark /\ K.epoch = journal.epoch
        /\ K.tomb[a] # Never
        /\ \A b \in Attempts : journal.tomb[b] # Never => K.tomb[b] # Never
    BY <1>0, RecordTombstone
  <2> HIDE DEF K
  <2>3. RetiredIsBelow'
    BY Zenon, <1>0, <2>1, <2>2, SameWatermarks, RetiredStays
  <2>4. RevokedIsBlocked'
    BY Zenon, <2>1, <2>2 DEF Inv, RevokedIsBlocked
  <2> QED
    BY Zenon, <2>1, <2>2, <2>3, <2>4 DEF Inv, TokensAreOurs
<1>7. CASE AdvanceEpoch
  <2> DEFINE K == advance_session_epoch(journal)
  <2>1. /\ journal.epoch < MaxEpoch /\ journal' = K /\ retired' = {}
        /\ UNCHANGED <<clock, session, revoked>>
    BY Zenon, <1>7 DEF AdvanceEpoch
  <2>2. JournalInv(K) /\ SameRows(journal, K)
    BY Zenon, <1>0, <2>1, AdvanceSessionEpoch
  <2> HIDE DEF K
  <2> QED
    BY Zenon, <2>1, <2>2 DEF Inv, SameRows, TokensAreOurs, RevokedIsBlocked, RetiredIsBelow
<1>8. CASE RecoverClock
  <2> DEFINE E == advance_session_epoch(journal)
             K == advance_watermark(E, journal.epoch + 1, clock)
  <2>1. /\ journal.epoch < MaxEpoch /\ journal' = K /\ retired' = {}
        /\ UNCHANGED <<clock, session, revoked>>
    BY Zenon, <1>8 DEF RecoverClock, recover_clock_lowering
  <2>2. JournalInv(E) /\ SameRows(journal, E)
    BY Zenon, <1>0, <2>1, AdvanceSessionEpoch
  <2>3. journal.epoch + 1 \in Epochs
    BY <1>0, <2>1, JournalConstants DEF JournalType, Epochs
  <2> HIDE DEF E
  <2>4. JournalInv(K) /\ SameRows(E, K)
    BY Zenon, <1>0, <2>2, <2>3, AdvanceWatermark
  <2> HIDE DEF K
  <2> QED
    BY Zenon, <2>1, <2>2, <2>4
       DEF Inv, SameRows, TokensAreOurs, RevokedIsBlocked, RetiredIsBelow
<1>9. CASE Collect
  <2> DEFINE K == gc_expired(journal, clock)
             dead == ExpiredAuths(journal, clock)
  <2>1. /\ journal' = K
        /\ retired' = retired \cup {journal.auth[a].token : a \in dead}
        /\ UNCHANGED <<clock, session, revoked>>
    BY Zenon, <1>9 DEF Collect
  <2>2. /\ JournalInv(K) /\ WatermarksKept(journal, K) /\ K.watermark[K.epoch] >= clock
        /\ K.reservation = journal.reservation /\ K.epoch = journal.epoch
        /\ \A a \in Attempts :
              IF a \in dead THEN K.auth[a] = None /\ K.tomb[a] = Never
              ELSE K.auth[a] = journal.auth[a] /\ K.tomb[a] = journal.tomb[a]
    BY <1>0, GcExpired
  <2>3. \A a \in dead : /\ a \in Attempts /\ journal.auth[a] # None
                        /\ ExpiresAt(journal.auth[a].token) <= clock - Skew
    BY Zenon DEF ExpiredAuths
  <2> HIDE DEF K, dead
  <2>4. \A a \in dead : /\ journal.auth[a].token \in Tokens
                        /\ journal.auth[a].token.attempt = a
                        /\ journal.reservation[a] # None
    BY Zenon, <1>0, <2>3 DEF Inv, TokensAreOurs, JournalInv, AuthsAreKeyed
  <2>5. retired' \subseteq Tokens
    BY Zenon, <2>1, <2>4 DEF Inv
  <2>6. TokensAreOurs'
    BY Zenon, <2>1, <2>2 DEF Inv, TokensAreOurs
  <2>7. RevokedIsBlocked'
    BY Zenon, <2>1, <2>2, <2>4 DEF Inv, RevokedIsBlocked
  <2>8. RetiredIsBelow'
    <3> SUFFICES ASSUME NEW t \in retired'
                 PROVE  K.watermark[K.epoch] >= ExpiresAt(t) + Skew /\ ~TokenRow(K, t)
      BY Zenon, <2>1 DEF RetiredIsBelow
    <3>1. /\ t \in Tokens /\ t.attempt \in Attempts /\ ExpiresAt(t) \in Nat
      BY Zenon, <2>5, TokenFacts DEF Tokens
    <3>2. /\ journal.epoch \in Epochs
          /\ journal.watermark[journal.epoch] \in Nat \cup {Never}
          /\ K.watermark[journal.epoch] \in Nat \cup {Never}
      BY Zenon, <1>0, <2>2 DEF JournalInv, JournalType
    <3>3. CASE t \in retired
      <4>1. /\ journal.watermark[journal.epoch] >= ExpiresAt(t) + Skew
            /\ journal.watermark[journal.epoch] <= K.watermark[journal.epoch]
            /\ ~TokenRow(journal, t)
        BY Zenon, <2>2, <3>2, <3>3 DEF Inv, RetiredIsBelow, WatermarksKept
      <4>2. ~TokenRow(K, t)
        BY Zenon, <2>2, <3>1, <4>1 DEF TokenRow
      <4> QED
        BY <2>2, <3>1, <3>2, <4>1, <4>2, JournalConstants DEF Never
    <3>4. CASE t \notin retired
      <4>1. PICK a \in dead : t = journal.auth[a].token
        BY Zenon, <2>1, <3>4
      <4>2. ~TokenRow(K, t)
        BY Zenon, <2>2, <2>3, <2>4, <4>1 DEF TokenRow
      <4>3. ExpiresAt(t) <= clock - Skew
        BY Zenon, <2>3, <4>1
      <4> QED
        BY <1>0, <2>2, <3>1, <3>2, <4>2, <4>3, JournalConstants DEF Never
    <3> QED
      BY Zenon, <3>3, <3>4
  <2> QED
    BY Zenon, <2>1, <2>2, <2>5, <2>6, <2>7, <2>8 DEF Inv
<1>10. CASE CleanUp
  <2> DEFINE K == cleanup_retention(journal, clock, AuditRetention, ReplayRetention)
  <2>1. journal' = K /\ UNCHANGED <<clock, session, revoked, retired>>
    BY Zenon, <1>10 DEF CleanUp
  <2>2. /\ JournalInv(K) /\ WatermarksKept(journal, K)
        /\ K.reservation = journal.reservation /\ K.auth = journal.auth
        /\ K.epoch = journal.epoch
        /\ \A a \in Attempts : K.tomb[a] = journal.tomb[a] \/ journal.auth[a] # None
    BY <1>0, CleanupRetention
  <2> HIDE DEF K
  <2>3. RetiredIsBelow'
    BY Zenon, <2>1, <2>2, RetiredStays
  <2>4. RevokedIsBlocked'
    BY Zenon, <1>0, <2>1, <2>2 DEF Inv, RevokedIsBlocked, JournalInv, AuthsAreKeyed
  <2> QED
    BY Zenon, <2>1, <2>2, <2>3, <2>4 DEF Inv, TokensAreOurs
<1>11. CASE Tick \/ ClockSetBack
  <2>1. clock' \in Time /\ UNCHANGED <<journal, session, revoked, retired>>
    BY <1>11, WorkerJournalConstants DEF Inv, Tick, ClockSetBack, Time
  <2> QED
    BY Zenon, <2>1 DEF Inv, TokensAreOurs, RevokedIsBlocked, RetiredIsBelow
<1>12. CASE UNCHANGED vars
  BY Zenon, <1>12 DEF vars, Inv, TokensAreOurs, RevokedIsBlocked, RetiredIsBelow
<1> QED
  BY Zenon, <1>1, <1>2, <1>3, <1>4, <1>5, <1>6, <1>7, <1>8, <1>9, <1>10, <1>11, <1>12 DEF Next

\* Every step keeps the results that are not acknowledged.
LEMMA NextKeepsResults == Inv /\ [Next]_vars => ResultsKept(journal, journal')
<1> SUFFICES ASSUME Inv, [Next]_vars PROVE ResultsKept(journal, journal')
  BY Zenon
<1>0. clock \in Nat /\ session \in Nat /\ JournalInv(journal)
  BY Zenon, TokenFacts DEF Inv
<1>1. journal'.completion = journal.completion => ResultsKept(journal, journal')
  BY Zenon DEF ResultsKept, Unacked
<1>2. ASSUME NEW tok \in Tokens, Admit(tok) PROVE ResultsKept(journal, journal')
  <2>1. tok \in TokenType /\ journal' = validate_and_admit(journal, tok, session, clock)
    BY Zenon, <1>2, TokenFacts DEF Admit
  <2>2. journal'.completion = journal.completion
    <3>1. Admission(journal, tok, session, clock, journal')
      BY Zenon, <1>0, <2>1, ValidateAndAdmit
    <3> QED
      BY Zenon, <3>1 DEF Admission
  <2> QED
    BY Zenon, <1>1, <2>2
<1>3. ASSUME NEW a \in Attempts, MarkRunning(a) PROVE ResultsKept(journal, journal')
  BY Zenon, <1>0, <1>1, <1>3, MarkRunningKeeps DEF MarkRunning
<1>4. ASSUME NEW a \in Attempts, NEW result \in Results, Complete(a, result)
      PROVE  ResultsKept(journal, journal')
  <2>1. journal' = record_completion_and_enqueue(journal, a, result)
    BY Zenon, <1>4 DEF Complete
  <2>2. /\ journal.completion[a] # None => journal'.completion[a] = journal.completion[a]
        /\ \A b \in Attempts \ {a} : journal'.completion[b] = journal.completion[b]
    <3>1. Recorded(journal, a, result, journal')
      BY Zenon, <1>0, <2>1, RecordCompletion
    <3> QED
      BY Zenon, <3>1 DEF Recorded
  <2> QED
    BY Zenon, <2>2 DEF ResultsKept, Unacked
<1>5. ASSUME NEW a \in Attempts, Ack(a) PROVE ResultsKept(journal, journal')
  BY Zenon, <1>0, <1>5, MarkAcked DEF Ack
<1>6. CASE Boot
  BY Zenon, <1>0, <1>1, <1>6, BootJournal DEF Boot
<1>7. ASSUME NEW a \in Attempts, Revoke(a) PROVE ResultsKept(journal, journal')
  BY <1>0, <1>1, <1>7, RecordTombstone DEF Revoke
<1>8. CASE AdvanceEpoch
  BY Zenon, <1>0, <1>1, <1>8, AdvanceSessionEpoch DEF AdvanceEpoch, SameRows
<1>9. CASE RecoverClock
  <2> DEFINE E == advance_session_epoch(journal)
  <2>1. /\ journal.epoch < MaxEpoch
        /\ journal' = advance_watermark(E, journal.epoch + 1, clock)
    BY Zenon, <1>9 DEF RecoverClock, recover_clock_lowering
  <2>2. JournalInv(E) /\ E.completion = journal.completion
    BY Zenon, <1>0, <2>1, AdvanceSessionEpoch DEF SameRows
  <2>3. journal.epoch + 1 \in Epochs
    BY <1>0, <2>1, JournalConstants DEF JournalInv, JournalType, Epochs
  <2> HIDE DEF E
  <2>4. journal'.completion = E.completion
    BY <1>0, <2>1, <2>2, <2>3, AdvanceWatermark DEF SameRows
  <2> QED
    BY Zenon, <1>1, <2>2, <2>4
<1>10. CASE Collect
  BY ZenonT(60), <1>0, <1>1, <1>10, GcExpired DEF Collect
<1>11. CASE CleanUp
  BY Zenon, <1>0, <1>11, CleanupRetention DEF CleanUp
<1>12. CASE Tick \/ ClockSetBack \/ UNCHANGED vars
  BY Zenon, <1>1, <1>12 DEF Tick, ClockSetBack, vars
<1> QED
  BY Zenon, <1>2, <1>3, <1>4, <1>5, <1>6, <1>7, <1>8, <1>9, <1>10, <1>11, <1>12 DEF Next

-----------------------------------------------------------------------------
\* The invariant holds in every state.
LEMMA Invariant == Spec => []Inv
BY InitInv, NextInv, PTL DEF Spec

(* Whatever the journal is asked to do and wherever the clock is set: a    *)
(* token that gc_expired collected is refused for the rest of its epoch.   *)
THEOREM RetiredTokensRefused == Spec => []RetiredTokenRefused
<1>1. Inv => RetiredTokenRefused
  BY Zenon, RetiredRefused DEF RetiredTokenRefused
<1> QED
  BY <1>1, Invariant, PTL

(* A revoked attempt is never admitted: its tombstone is only collected    *)
(* when a reservation stands in the way.                                   *)
THEOREM RevocationHolds == Spec => []RevokedNeverAdmitted
<1>1. Inv => RevokedNeverAdmitted
  <2> SUFFICES ASSUME Inv, NEW tok \in Tokens, tok.attempt \in revoked
               PROVE  AdmissionOutcome(journal, tok, session, clock) # "admitted"
    BY Zenon, InvType DEF RevokedNeverAdmitted
  <2>1. journal.tomb[tok.attempt] # Never \/ journal.reservation[tok.attempt] # None
    BY Zenon DEF Inv, RevokedIsBlocked
  <2>2. AdmitOutcome(journal, tok, clock) # "admitted"
    BY Zenon, <2>1 DEF AdmitOutcome
  <2> QED
    BY Zenon, <2>2 DEF AdmissionOutcome
<1> QED
  BY <1>1, Invariant, PTL

(* An unacknowledged result keeps its row and its value through every      *)
(* call, boot and collection, and its outbox row until it is acknowledged. *)
THEOREM UnackedResultsAreKept == Spec => UnackedIsKept
<1>1. Inv /\ Inv' /\ [Next]_vars =>
        [\A a \in Attempts : Unacked(journal, a) =>
            /\ journal'.completion[a] # None
            /\ journal'.completion[a].result = journal.completion[a].result
            /\ Unacked(journal', a) => a \in journal'.outbox]_vars
  <2> SUFFICES ASSUME Inv, Inv', [Next]_vars, NEW a \in Attempts, Unacked(journal, a)
               PROVE  /\ journal'.completion[a] # None
                      /\ journal'.completion[a].result = journal.completion[a].result
                      /\ Unacked(journal', a) => a \in journal'.outbox
    BY Zenon
  <2>1. ResultsKept(journal, journal')
    BY Zenon, NextKeepsResults
  <2>2. OutboxIsKept(journal')
    BY Zenon DEF Inv, JournalInv
  <2> QED
    BY Zenon, <2>1, <2>2 DEF ResultsKept, OutboxIsKept
<1> QED
  BY <1>1, Invariant, PTL DEF Spec, UnackedIsKept
=============================================================================
