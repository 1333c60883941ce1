--------------------------- MODULE JournalLemmas ---------------------------
(* What every transaction of the worker journal keeps and changes, for all *)
(* attempts, tokens, clocks and epochs.  WorkerJournalProofs and           *)
(* WorkerServerProofs rest on these lemmas.                                *)
EXTENDS JournalTables, TLAPS

\* An authorization row is stored under its own attempt, beside a reservation.
AuthsAreKeyed(J) ==
    \A a \in Attempts : J.auth[a] # None =>
        J.auth[a].token.attempt = a /\ J.reservation[a] # None

\* An unacknowledged result has an outbox row, and a row has a result.
OutboxIsKept(J) ==
    /\ \A a \in Attempts : Unacked(J, a) => a \in J.outbox
    /\ \A a \in J.outbox : J.completion[a] # None

JournalInv(J) == J \in JournalType /\ AuthsAreKeyed(J) /\ OutboxIsKept(J)

\* No reservation is taken back or given another identity.
ReservationsKept(J, K) ==
    \A a \in Attempts : J.reservation[a] # None =>
        K.reservation[a] # None /\ K.reservation[a].slot = J.reservation[a].slot

\* The watermarks do not move back.
WatermarksKept(J, K) == \A e \in Epochs : J.watermark[e] <= K.watermark[e]

\* A result that is not acknowledged keeps its row and its value.
ResultsKept(J, K) ==
    \A a \in Attempts : Unacked(J, a) =>
        K.completion[a] # None /\ K.completion[a].result = J.completion[a].result

\* The tables other than the watermarks and the epoch.
SameRows(J, K) ==
    /\ K.reservation = J.reservation /\ K.auth = J.auth /\ K.tomb = J.tomb
    /\ K.completion = J.completion /\ K.outbox = J.outbox

-----------------------------------------------------------------------------
\* The journal of a new file is consistent.
LEMMA EmptyJournalInv == JournalInv(EmptyJournal)
BY JournalConstants
   DEF JournalInv, JournalType, AuthsAreKeyed, OutboxIsKept, EmptyJournal,
       Unacked, Epochs, Never

\* A watermark only rises, and reaches the clock.
LEMMA AdvanceWatermark ==
    ASSUME NEW J, JournalInv(J), NEW e \in Epochs, NEW now \in Nat,
           NEW K, K = advance_watermark(J, e, now)
    PROVE  /\ JournalInv(K)
           /\ SameRows(J, K) /\ K.epoch = J.epoch
           /\ WatermarksKept(J, K)
           /\ K.watermark[e] >= now
BY DEF JournalInv, JournalType, AuthsAreKeyed, OutboxIsKept, Unacked,
       advance_watermark, WatermarksKept, SameRows, Never

\* K is the journal J after a request to admit the token: refused, or admitted.
Admission(J, tok, session, now, K) ==
    /\ JournalInv(K) /\ ReservationsKept(J, K) /\ WatermarksKept(J, K)
    /\ K.epoch = J.epoch /\ K.tomb = J.tomb
    /\ K.completion = J.completion /\ K.outbox = J.outbox
    /\ \A a \in Attempts : K.auth[a] = J.auth[a] \/ K.auth[a].token = tok
    /\ \/ AdmissionOutcome(J, tok, session, now) # "admitted" /\ K = J
       \/ /\ AdmissionOutcome(J, tok, session, now) = "admitted"
          /\ J.reservation[tok.attempt] = None
          /\ ReservationState(K, tok.attempt) = "reserved"
          /\ \A a \in Attempts \ {tok.attempt} : K.reservation[a] = J.reservation[a]

\* Only an admission changes the journal; it takes a free attempt that was
\* not revoked, for the token it was asked for.
LEMMA ValidateAndAdmit ==
    ASSUME NEW J, JournalInv(J), NEW tok \in TokenType, NEW session \in Nat,
           NEW now \in Nat,
           NEW K, K = validate_and_admit(J, tok, session, now)
    PROVE  Admission(J, tok, session, now, K)
<1> DEFINE a == tok.attempt
           W == advance_watermark(J, J.epoch, now)
<1>0. a \in Attempts /\ tok.slot \in Slots
  BY Zenon DEF TokenType
<1>1. CASE AdmissionOutcome(J, tok, session, now) # "admitted"
  <2>1. K = J
    BY Zenon, <1>1 DEF validate_and_admit
  <2>2. WatermarksKept(J, J)
    BY DEF WatermarksKept, JournalInv, JournalType, Never
  <2> QED
    BY Zenon, <1>1, <2>1, <2>2 DEF ReservationsKept, Admission
<1>2. CASE AdmissionOutcome(J, tok, session, now) = "admitted"
  <2>1. AdmitOutcome(J, tok, now) = "admitted"
    BY Zenon, <1>2 DEF AdmissionOutcome
  <2>2. J.reservation[a] = None
    BY Zenon, <2>1 DEF AdmitOutcome
  <2>3. J.auth[a] = None
    BY Zenon, <1>0, <2>2 DEF JournalInv, AuthsAreKeyed
  <2>4. /\ JournalInv(W) /\ SameRows(J, W) /\ W.epoch = J.epoch
        /\ WatermarksKept(J, W)
    <3>1. J.epoch \in Epochs
      BY Zenon DEF JournalInv, JournalType
    <3> QED
      BY <3>1, AdvanceWatermark
  <2> DEFINE row == [slot |-> tok.slot, state |-> "reserved"]
             auth == [token |-> tok, epoch |-> J.epoch]
  <2>5. /\ row \in ReservationType /\ row # None /\ row.state = "reserved"
        /\ auth \in AuthType /\ auth # None /\ auth.token = tok
    BY <1>0, JournalConstants
       DEF ReservationType, ReservationStates, AuthType, JournalInv, JournalType
  <2> HIDE DEF W
  <2>6. K = [W EXCEPT !.auth[a] = auth, !.reservation[a] = row]
    <3>1. W.auth[a] = None
      BY Zenon, <2>3, <2>4 DEF SameRows
    <3>2. K = [W EXCEPT !.auth[a] = IF W.auth[a] = None THEN auth ELSE W.auth[a],
                        !.reservation[a] = row]
      BY Zenon, <1>2 DEF validate_and_admit, W
    <3> QED
      BY Zenon, <3>1, <3>2
  <2> HIDE DEF row, auth
  <2>7. /\ K.reservation = [J.reservation EXCEPT ![a] = row]
        /\ K.auth = [J.auth EXCEPT ![a] = auth]
        /\ K.tomb = J.tomb /\ K.completion = J.completion /\ K.outbox = J.outbox
        /\ K.watermark = W.watermark /\ K.epoch = J.epoch
    BY ZenonT(60), <2>4, <2>6 DEF JournalInv, JournalType, SameRows
  <2>8. K \in JournalType
    <3>1. [W EXCEPT !.auth[a] = auth, !.reservation[a] = row] \in JournalType
      BY Zenon, <1>0, <2>4, <2>5 DEF JournalInv, JournalType
    <3> QED
      BY Zenon, <2>6, <3>1
  <2>9. AuthsAreKeyed(K)
    BY <1>0, <2>2, <2>5, <2>7 DEF JournalInv, JournalType, AuthsAreKeyed
  <2>10. OutboxIsKept(K)
    BY Zenon, <2>7 DEF JournalInv, OutboxIsKept, Unacked
  <2>11. ReservationsKept(J, K)
    BY Zenon, <1>0, <2>2, <2>7 DEF JournalInv, JournalType, ReservationsKept
  <2>12. WatermarksKept(J, K)
    BY Zenon, <2>4, <2>7 DEF WatermarksKept
  <2>13. \A b \in Attempts : K.auth[b] = J.auth[b] \/ K.auth[b].token = tok
    BY Zenon, <1>0, <2>5, <2>7 DEF JournalInv, JournalType
  <2>14. /\ ReservationState(K, a) = "reserved"
         /\ \A b \in Attempts \ {a} : K.reservation[b] = J.reservation[b]
    BY Zenon, <1>0, <2>5, <2>7 DEF JournalInv, JournalType, ReservationState
  <2> QED
    BY Zenon, <1>2, <2>2, <2>7, <2>8, <2>9, <2>10, <2>11, <2>12, <2>13, <2>14
       DEF JournalInv, Admission
<1> QED
  BY Zenon, <1>1, <1>2

\* mark_running moves one reserved row.
LEMMA MarkRunningKeeps ==
    ASSUME NEW J, JournalInv(J), NEW a \in Attempts,
           NEW K, K = mark_running(J, a)
    PROVE  /\ JournalInv(K)
           /\ ReservationsKept(J, K)
           /\ K.auth = J.auth /\ K.tomb = J.tomb /\ K.completion = J.completion
           /\ K.outbox = J.outbox /\ K.watermark = J.watermark /\ K.epoch = J.epoch
           /\ \A b \in Attempts :
                 \/ K.reservation[b] = J.reservation[b]
                 \/ /\ ReservationState(J, b) = "reserved"
                    /\ ReservationState(K, b) = "running"
<1>1. CASE ReservationState(J, a) # "reserved"
  BY Zenon, <1>1 DEF mark_running, ReservationsKept, JournalInv, JournalType
<1>2. CASE ReservationState(J, a) = "reserved"
  <2>1. J.reservation[a] # None /\ J.reservation[a] \in ReservationType
    BY Zenon, <1>2 DEF ReservationState, JournalInv, JournalType
  <2> DEFINE row == [J.reservation[a] EXCEPT !.state = "running"]
  <2>2. row \in ReservationType /\ row # None /\ row.slot = J.reservation[a].slot
        /\ row.state = "running"
    BY Zenon, <2>1, JournalConstants DEF ReservationType, ReservationStates
  <2>3. K = [J EXCEPT !.reservation[a] = row]
    BY Zenon, <1>2 DEF mark_running
  <2> HIDE DEF row
  <2>4. /\ K.reservation = [J.reservation EXCEPT ![a] = row]
        /\ K.auth = J.auth /\ K.tomb = J.tomb /\ K.completion = J.completion
        /\ K.outbox = J.outbox /\ K.watermark = J.watermark /\ K.epoch = J.epoch
    BY Zenon, <2>3 DEF JournalInv, JournalType
  <2>5. K \in JournalType
    BY <2>2, <2>3 DEF JournalInv, JournalType
  <2>6. AuthsAreKeyed(K)
    <3>1. \A b \in Attempts : K.reservation[b] = None => J.reservation[b] = None
      BY Zenon, <2>2, <2>4 DEF JournalInv, JournalType
    <3>2. AuthsAreKeyed(J)
      BY Zenon DEF JournalInv
    <3> QED
      BY ZenonT(60), <2>4, <3>1, <3>2 DEF AuthsAreKeyed
  <2>7. OutboxIsKept(K)
    BY Zenon, <2>4 DEF JournalInv, OutboxIsKept, Unacked
  <2>8. ReservationsKept(J, K)
    BY Zenon, <2>2, <2>4 DEF JournalInv, JournalType, ReservationsKept
  <2>9. \A b \in Attempts :
           \/ K.reservation[b] = J.reservation[b]
           \/ ReservationState(J, b) = "reserved" /\ ReservationState(K, b) = "running"
    BY Zenon, <1>2, <2>2, <2>4 DEF JournalInv, JournalType, ReservationState
  <2> QED
    BY Zenon, <2>4, <2>5, <2>6, <2>7, <2>8, <2>9 DEF JournalInv
<1> QED
  BY Zenon, <1>1, <1>2

-----------------------------------------------------------------------------
\* K is the journal J after the result of the attempt was recorded.
Recorded(J, a, result, K) ==
    /\ JournalInv(K)
    /\ ReservationsKept(J, K)
    /\ ResultsKept(J, K)
    /\ K.auth = J.auth /\ K.tomb = J.tomb
    /\ K.watermark = J.watermark /\ K.epoch = J.epoch
    /\ J.completion[a] = None => /\ Unacked(K, a)
                                 /\ K.completion[a].result = result
    /\ J.completion[a] # None => K.completion[a] = J.completion[a]
    /\ \A b \in Attempts \ {a} : /\ K.completion[b] = J.completion[b]
                                 /\ K.reservation[b] = J.reservation[b]
    /\ J.reservation[a] = None => K.reservation[a] = None
    /\ J.reservation[a] # None => ReservationState(K, a) = "completed"
    /\ J.outbox \subseteq K.outbox

\* The first result of an attempt wins and completes its reservation.
LEMMA RecordCompletion ==
    ASSUME NEW J, JournalInv(J), NEW a \in Attempts, NEW result \in Results,
           NEW K, K = record_completion_and_enqueue(J, a, result)
    PROVE  Recorded(J, a, result, K)
<1> DEFINE row == IF J.reservation[a] = None THEN None
                  ELSE [J.reservation[a] EXCEPT !.state = "completed"]
           done == IF J.completion[a] = None THEN [result |-> result, ackedAt |-> Never]
                   ELSE J.completion[a]
           M == [J EXCEPT !.reservation[a] = row, !.completion[a] = done]
<1>1. /\ J.reservation[a] = None => row = None
      /\ J.reservation[a] # None => /\ row \in ReservationType /\ row # None
                                   /\ row.slot = J.reservation[a].slot
                                   /\ row.state = "completed"
  BY ZenonT(60), JournalConstants DEF JournalInv, JournalType, ReservationType, ReservationStates
<1>2. /\ done \in CompletionType /\ done # None
      /\ J.completion[a] # None => done = J.completion[a]
      /\ J.completion[a] = None => done.result = result /\ done.ackedAt = Never
  BY JournalConstants DEF JournalInv, JournalType, CompletionType, Never
<1>3. K = [M EXCEPT !.outbox = M.outbox \cup {b \in {a} : Unacked(M, b)}]
  BY Zenon DEF record_completion_and_enqueue, respool_completions
<1> HIDE DEF row, done
<1>4. /\ M.reservation = [J.reservation EXCEPT ![a] = row]
      /\ M.completion = [J.completion EXCEPT ![a] = done]
      /\ M.auth = J.auth /\ M.tomb = J.tomb /\ M.outbox = J.outbox
      /\ M.watermark = J.watermark /\ M.epoch = J.epoch
      /\ M \in JournalType
  BY Zenon, <1>1, <1>2 DEF JournalInv, JournalType
<1> HIDE DEF M
<1>5. /\ K.reservation = M.reservation /\ K.completion = M.completion
      /\ K.auth = J.auth /\ K.tomb = J.tomb /\ K.watermark = J.watermark
      /\ K.epoch = J.epoch
      /\ K.outbox = J.outbox \cup {b \in {a} : Unacked(M, b)}
      /\ K \in JournalType
  BY <1>3, <1>4 DEF JournalType
<1>6. AuthsAreKeyed(K)
  BY <1>1, <1>4, <1>5 DEF JournalInv, JournalType, AuthsAreKeyed
<1>7. OutboxIsKept(K)
  <2>1. \A b \in Attempts : Unacked(K, b) => b \in K.outbox
    BY <1>4, <1>5 DEF JournalInv, JournalType, OutboxIsKept, Unacked
  <2>2. \A b \in K.outbox : K.completion[b] # None
    BY <1>2, <1>4, <1>5 DEF JournalInv, JournalType, OutboxIsKept
  <2> QED
    BY Zenon, <2>1, <2>2 DEF OutboxIsKept
<1>8. ReservationsKept(J, K)
  BY <1>1, <1>4, <1>5 DEF JournalInv, JournalType, ReservationsKept
<1>9. ResultsKept(J, K)
  BY <1>2, <1>4, <1>5 DEF JournalInv, JournalType, ResultsKept, Unacked
<1>10. /\ \A b \in Attempts \ {a} : /\ K.completion[b] = J.completion[b]
                                    /\ K.reservation[b] = J.reservation[b]
       /\ K.reservation[a] = row /\ K.completion[a] = done
  BY <1>4, <1>5 DEF JournalInv, JournalType
<1>11. J.reservation[a] # None => ReservationState(K, a) = "completed"
  BY Zenon, <1>1, <1>10 DEF ReservationState
<1>12. J.completion[a] = None => Unacked(K, a)
  BY Zenon, <1>2, <1>10 DEF Unacked
<1> QED
  BY Zenon, <1>1, <1>2, <1>5, <1>6, <1>7, <1>8, <1>9, <1>10, <1>11, <1>12
     DEF JournalInv, Recorded

\* mark_acked stamps an unacknowledged result and drops its outbox row.
LEMMA MarkAcked ==
    ASSUME NEW J, JournalInv(J), NEW a \in Attempts, NEW now \in Nat,
           NEW K, K = mark_acked(J, a, now)
    PROVE  /\ JournalInv(K)
           /\ ResultsKept(J, K)
           /\ K.reservation = J.reservation /\ K.auth = J.auth /\ K.tomb = J.tomb
           /\ K.watermark = J.watermark /\ K.epoch = J.epoch
           /\ \A b \in Attempts \ {a} : K.completion[b] = J.completion[b]
           /\ Unacked(J, a) => /\ Acked(K, a)
                               /\ K.completion[a].result = J.completion[a].result
           /\ ~Unacked(J, a) => K.completion[a] = J.completion[a]
           /\ K.outbox = J.outbox \ {a}
<1> DEFINE done == IF Unacked(J, a) THEN [J.completion[a] EXCEPT !.ackedAt = now]
                   ELSE J.completion[a]
<1>1. /\ Unacked(J, a) => /\ done \in CompletionType /\ done # None
                          /\ done.result = J.completion[a].result
                          /\ done.ackedAt = now
      /\ ~Unacked(J, a) => done = J.completion[a]
  BY Zenon, JournalConstants DEF JournalInv, JournalType, CompletionType, Unacked
<1>2. K = [J EXCEPT !.completion[a] = done, !.outbox = J.outbox \ {a}]
  BY Zenon DEF mark_acked
<1> HIDE DEF done
<1>3. /\ K.completion = [J.completion EXCEPT ![a] = done]
      /\ K.outbox = J.outbox \ {a}
      /\ K.reservation = J.reservation /\ K.auth = J.auth /\ K.tomb = J.tomb
      /\ K.watermark = J.watermark /\ K.epoch = J.epoch
      /\ K \in JournalType
  <2>1. [J EXCEPT !.completion[a] = done, !.outbox = J.outbox \ {a}] \in JournalType
    BY Zenon, <1>1 DEF JournalInv, JournalType
  <2> QED
    BY Zenon, <1>2, <2>1 DEF JournalInv, JournalType
<1>4. AuthsAreKeyed(K)
  BY ZenonT(60), <1>3 DEF JournalInv, AuthsAreKeyed
<1>5. K.completion[a] = done /\ \A b \in Attempts \ {a} : K.completion[b] = J.completion[b]
  BY Zenon, <1>3 DEF JournalInv, JournalType
<1>6. Unacked(J, a) => Acked(K, a)
  BY <1>1, <1>5 DEF Acked, Never
<1>7. ~Unacked(K, a)
  BY <1>1, <1>5 DEF Unacked, Never
<1>8. OutboxIsKept(K)
  BY ZenonT(60), <1>3, <1>5, <1>7 DEF JournalInv, JournalType, OutboxIsKept, Unacked
<1>9. ResultsKept(J, K)
  BY Zenon, <1>1, <1>5 DEF ResultsKept, Unacked
<1> QED
  BY Zenon, <1>1, <1>3, <1>4, <1>5, <1>6, <1>8, <1>9 DEF JournalInv

-----------------------------------------------------------------------------
\* A boot interrupts what was active and leaves every result in place.
LEMMA BootJournal ==
    ASSUME NEW J, JournalInv(J),
           NEW K, K = respool_completions(mark_interrupted_on_boot(J), Attempts)
    PROVE  /\ JournalInv(K)
           /\ ReservationsKept(J, K)
           /\ K.auth = J.auth /\ K.tomb = J.tomb /\ K.completion = J.completion
           /\ K.watermark = J.watermark /\ K.epoch = J.epoch
           /\ K.outbox = J.outbox
           /\ \A a \in Attempts : ReservationState(K, a) =
                 IF ReservationState(J, a) \in {"reserved", "running"}
                 THEN "interrupted" ELSE ReservationState(J, a)
<1> DEFINE row(a) == IF ReservationState(J, a) \in {"reserved", "running"}
                     THEN [J.reservation[a] EXCEPT !.state = "interrupted"]
                     ELSE J.reservation[a]
           R == [a \in Attempts |-> row(a)]
           M == [J EXCEPT !.reservation = R]
<1>1. ASSUME NEW a \in Attempts
      PROVE  /\ row(a) \in ReservationType \cup {None}
             /\ J.reservation[a] # None => row(a) # None /\ row(a).slot = J.reservation[a].slot
             /\ J.reservation[a] = None => row(a) = None
             /\ (IF row(a) = None THEN "absent" ELSE row(a).state) =
                  IF ReservationState(J, a) \in {"reserved", "running"}
                  THEN "interrupted" ELSE ReservationState(J, a)
  <2>1. J.reservation[a] \in ReservationType \cup {None}
    BY Zenon DEF JournalInv, JournalType
  <2>2. CASE ReservationState(J, a) \in {"reserved", "running"}
    <3>1. J.reservation[a] # None
      BY Zenon, <2>2 DEF ReservationState
    <3>2. row(a) = [J.reservation[a] EXCEPT !.state = "interrupted"]
      BY Zenon, <2>2
    <3> HIDE DEF row
    <3>3. /\ row(a) \in ReservationType /\ row(a).state = "interrupted"
          /\ row(a).slot = J.reservation[a].slot
      BY Zenon, <2>1, <3>1, <3>2 DEF ReservationType, ReservationStates
    <3> QED
      BY Zenon, <2>2, <3>1, <3>3, JournalConstants
  <2>3. CASE ReservationState(J, a) \notin {"reserved", "running"}
    BY Zenon, <2>1, <2>3 DEF ReservationState
  <2> QED
    BY Zenon, <2>2, <2>3
<1>2. mark_interrupted_on_boot(J) = M
  BY Zenon DEF mark_interrupted_on_boot
<1>3. K = [M EXCEPT !.outbox = M.outbox \cup {a \in Attempts : Unacked(M, a)}]
  BY Zenon, <1>2 DEF respool_completions
<1> HIDE DEF row
<1>4. R \in [Attempts -> ReservationType \cup {None}]
  BY Zenon, <1>1
<1>5. \A a \in Attempts : R[a] = row(a)
  BY Zenon
<1> HIDE DEF R
<1>6. /\ M.reservation = R /\ M.auth = J.auth /\ M.tomb = J.tomb
      /\ M.completion = J.completion /\ M.outbox = J.outbox
      /\ M.watermark = J.watermark /\ M.epoch = J.epoch
      /\ M \in JournalType
  BY Zenon, <1>4 DEF JournalInv, JournalType
<1> HIDE DEF M
<1>7. M.outbox \cup {a \in Attempts : Unacked(M, a)} = J.outbox
  BY Zenon, <1>6 DEF JournalInv, OutboxIsKept, Unacked
<1>8. /\ K.reservation = R /\ K.auth = J.auth /\ K.tomb = J.tomb
      /\ K.completion = J.completion /\ K.outbox = J.outbox
      /\ K.watermark = J.watermark /\ K.epoch = J.epoch
      /\ K \in JournalType
  BY Zenon, <1>3, <1>6, <1>7 DEF JournalType
<1>9. AuthsAreKeyed(K)
  BY ZenonT(60), <1>1, <1>5, <1>8 DEF JournalInv, AuthsAreKeyed
<1>10. OutboxIsKept(K)
  BY Zenon, <1>8 DEF JournalInv, OutboxIsKept, Unacked
<1>11. ReservationsKept(J, K)
  BY Zenon, <1>1, <1>5, <1>8 DEF ReservationsKept
<1>12. \A a \in Attempts : ReservationState(K, a) =
          IF ReservationState(J, a) \in {"reserved", "running"}
          THEN "interrupted" ELSE ReservationState(J, a)
  <2> TAKE a \in Attempts
  <2>1. ReservationState(K, a) = IF row(a) = None THEN "absent" ELSE row(a).state
    BY Zenon, <1>5, <1>8 DEF ReservationState
  <2> QED
    BY Zenon, <1>1, <2>1
<1> QED
  BY Zenon, <1>8, <1>9, <1>10, <1>11, <1>12 DEF JournalInv

\* A tombstone changes nothing else.
LEMMA RecordTombstone ==
    ASSUME NEW J, JournalInv(J), NEW a \in Attempts, NEW now \in Nat,
           NEW K, K = record_tombstone(J, a, now)
    PROVE  /\ JournalInv(K)
           /\ K.reservation = J.reservation /\ K.auth = J.auth
           /\ K.completion = J.completion /\ K.outbox = J.outbox
           /\ K.watermark = J.watermark /\ K.epoch = J.epoch
           /\ K.tomb[a] # Never
           /\ \A b \in Attempts : J.tomb[b] # Never => K.tomb[b] # Never
<1>1. K = [J EXCEPT !.tomb[a] = now]
  BY Zenon DEF record_tombstone
<1>2. /\ K.tomb = [J.tomb EXCEPT ![a] = now]
      /\ K.watermark = J.watermark /\ K.epoch = J.epoch
      /\ K.auth = J.auth /\ K.reservation = J.reservation
      /\ K.completion = J.completion /\ K.outbox = J.outbox
      /\ K \in JournalType
  BY <1>1 DEF JournalInv, JournalType
<1>3. AuthsAreKeyed(K) /\ OutboxIsKept(K)
  BY ZenonT(60), <1>2 DEF JournalInv, AuthsAreKeyed, OutboxIsKept, Unacked
<1>4. \A b \in Attempts : K.tomb[b] = IF b = a THEN now ELSE J.tomb[b]
  BY Zenon, <1>2 DEF JournalInv, JournalType
<1>5. now # Never
  BY DEF Never
<1> QED
  BY Zenon, <1>2, <1>3, <1>4, <1>5 DEF JournalInv

\* A new epoch changes no table.
LEMMA AdvanceSessionEpoch ==
    ASSUME NEW J, JournalInv(J), J.epoch < MaxEpoch,
           NEW K, K = advance_session_epoch(J)
    PROVE  /\ JournalInv(K)
           /\ SameRows(J, K) /\ K.watermark = J.watermark
           /\ K.epoch = J.epoch + 1
<1>1. K = [J EXCEPT !.epoch = J.epoch + 1]
  BY Zenon DEF advance_session_epoch
<1>2. /\ K.epoch = J.epoch + 1 /\ SameRows(J, K) /\ K.watermark = J.watermark
      /\ K \in JournalType
  <2>1. J \in JournalType /\ J.epoch \in Epochs
    BY Zenon DEF JournalInv, JournalType
  <2>2. J.epoch + 1 \in Epochs
    BY <2>1, JournalConstants DEF Epochs
  <2> QED
    BY Zenon, <1>1, <2>1, <2>2 DEF JournalType, SameRows
<1>3. AuthsAreKeyed(K) /\ OutboxIsKept(K)
  BY Zenon, <1>2 DEF JournalInv, AuthsAreKeyed, OutboxIsKept, SameRows, Unacked
<1> QED
  BY Zenon, <1>2, <1>3 DEF JournalInv

\* gc_expired deletes only dead authorizations and their tombstones, below a
\* watermark that has reached the clock.
LEMMA GcExpired ==
    ASSUME NEW J, JournalInv(J), NEW now \in Nat,
           NEW K, K = gc_expired(J, now)
    PROVE  /\ JournalInv(K)
           /\ WatermarksKept(J, K) /\ K.watermark[K.epoch] >= now
           /\ K.reservation = J.reservation /\ K.completion = J.completion
           /\ K.outbox = J.outbox /\ K.epoch = J.epoch
           /\ \A a \in Attempts :
                 IF a \in ExpiredAuths(J, now)
                 THEN K.auth[a] = None /\ K.tomb[a] = Never
                 ELSE K.auth[a] = J.auth[a] /\ K.tomb[a] = J.tomb[a]
<1> DEFINE W == advance_watermark(J, J.epoch, now)
           A == [a \in Attempts |-> IF a \in ExpiredAuths(J, now) THEN None ELSE W.auth[a]]
           T == [a \in Attempts |-> IF a \in ExpiredAuths(J, now) THEN Never ELSE W.tomb[a]]
<1>1. K = [W EXCEPT !.auth = A, !.tomb = T]
  BY Zenon DEF gc_expired
<1>2. /\ JournalInv(W) /\ SameRows(J, W) /\ W.epoch = J.epoch
      /\ WatermarksKept(J, W) /\ W.watermark[J.epoch] >= now
  <2>1. J.epoch \in Epochs
    BY Zenon DEF JournalInv, JournalType
  <2> QED
    BY <2>1, AdvanceWatermark
<1> HIDE DEF W
<1>3. /\ W.auth = J.auth /\ W.tomb = J.tomb /\ W.reservation = J.reservation
      /\ W.completion = J.completion /\ W.outbox = J.outbox /\ W.epoch = J.epoch
      /\ W \in JournalType
  BY Zenon, <1>2 DEF JournalInv, JournalType, SameRows
<1>4. /\ A \in [Attempts -> AuthType \cup {None}]
      /\ T \in [Attempts -> Nat \cup {Never}]
  BY Zenon, <1>3 DEF JournalType
<1>5. /\ \A a \in Attempts : A[a] = IF a \in ExpiredAuths(J, now) THEN None ELSE J.auth[a]
      /\ \A a \in Attempts : T[a] = IF a \in ExpiredAuths(J, now) THEN Never ELSE J.tomb[a]
  BY Zenon, <1>3
<1> HIDE DEF A, T
<1>6. /\ K.auth = A /\ K.tomb = T /\ K.reservation = J.reservation
      /\ K.completion = J.completion /\ K.outbox = J.outbox
      /\ K.epoch = J.epoch /\ K.watermark = W.watermark
      /\ K \in JournalType
  BY Zenon, <1>1, <1>3, <1>4 DEF JournalType
<1>7. AuthsAreKeyed(K)
  BY Zenon, <1>5, <1>6 DEF JournalInv, AuthsAreKeyed
<1>8. OutboxIsKept(K)
  BY Zenon, <1>6 DEF JournalInv, OutboxIsKept, Unacked
<1>9. WatermarksKept(J, K)
  BY Zenon, <1>2, <1>6 DEF WatermarksKept
<1> QED
  BY Zenon, <1>2, <1>5, <1>6, <1>7, <1>8, <1>9 DEF JournalInv

\* cleanup_retention deletes acknowledged results and the tombstones of dead
\* authorizations.
LEMMA CleanupRetention ==
    ASSUME NEW J, JournalInv(J), NEW now \in Nat, NEW audit, NEW replay,
           NEW K, K = cleanup_retention(J, now, audit, replay)
    PROVE  /\ JournalInv(K)
           /\ WatermarksKept(J, K)
           /\ ResultsKept(J, K)
           /\ K.reservation = J.reservation /\ K.auth = J.auth /\ K.epoch = J.epoch
           /\ \A a \in Attempts : K.tomb[a] = J.tomb[a] \/ J.auth[a] # None
<1> DEFINE W == advance_watermark(J, J.epoch, now)
           acked == OldAcks(J, now - audit)
           resolved == {a \in ExpiredAuths(J, now) : J.tomb[a] <= now - replay}
           C == [a \in Attempts |-> IF a \in acked THEN None ELSE W.completion[a]]
           T == [a \in Attempts |-> IF a \in resolved THEN Never ELSE W.tomb[a]]
<1>1. K = [W EXCEPT !.completion = C, !.outbox = W.outbox \ acked, !.tomb = T]
  BY Zenon DEF cleanup_retention
<1>2. /\ JournalInv(W) /\ SameRows(J, W) /\ W.epoch = J.epoch
      /\ WatermarksKept(J, W)
  <2>1. J.epoch \in Epochs
    BY Zenon DEF JournalInv, JournalType
  <2> QED
    BY <2>1, AdvanceWatermark
<1>3. /\ \A a \in acked : a \in Attempts /\ ~Unacked(J, a)
      /\ \A a \in resolved : J.auth[a] # None
  BY Zenon DEF OldAcks, ExpiredAuths, Acked, Unacked
<1> HIDE DEF W, acked, resolved
<1>4. /\ W.auth = J.auth /\ W.tomb = J.tomb /\ W.reservation = J.reservation
      /\ W.completion = J.completion /\ W.outbox = J.outbox /\ W.epoch = J.epoch
      /\ W \in JournalType
  BY Zenon, <1>2 DEF JournalInv, JournalType, SameRows
<1>5. /\ C \in [Attempts -> CompletionType \cup {None}]
      /\ T \in [Attempts -> Nat \cup {Never}]
  BY Zenon, <1>4 DEF JournalType
<1>6. /\ \A a \in Attempts : C[a] = IF a \in acked THEN None ELSE J.completion[a]
      /\ \A a \in Attempts : T[a] = IF a \in resolved THEN Never ELSE J.tomb[a]
  BY Zenon, <1>4
<1> HIDE DEF C, T
<1>7. /\ K.completion = C /\ K.tomb = T /\ K.outbox = J.outbox \ acked
      /\ K.reservation = J.reservation /\ K.auth = J.auth
      /\ K.epoch = J.epoch /\ K.watermark = W.watermark
      /\ K \in JournalType
  BY Zenon, <1>1, <1>4, <1>5 DEF JournalType
<1>8. AuthsAreKeyed(K)
  BY Zenon, <1>7 DEF JournalInv, AuthsAreKeyed
<1>9. OutboxIsKept(K)
  BY Zenon, <1>3, <1>6, <1>7 DEF JournalInv, JournalType, OutboxIsKept, Unacked
<1>10. WatermarksKept(J, K)
  BY Zenon, <1>2, <1>7 DEF WatermarksKept
<1>11. ResultsKept(J, K)
  BY Zenon, <1>3, <1>6, <1>7 DEF ResultsKept, Unacked
<1> QED
  BY Zenon, <1>3, <1>6, <1>7, <1>8, <1>9, <1>10, <1>11 DEF JournalInv
=============================================================================
