--------------------------- MODULE MCWorkerServer ---------------------------
(* The instances of WorkerServer that TLC checks: all attempts belong to   *)
(* one run.  The attempts and the requests are interchangeable.            *)
EXTENDS WorkerServer, FiniteSets

CONSTANTS r1

OneRun == [a \in Attempts |-> r1]
Symmetry == Permutations(Requests) \cup Permutations(Attempts \ Legacy)

\* The attempts dispatched so far, and the requests at work.
Touched == started \cup {a \in Attempts : journal.reservation[a] # None}
                   \cup {request[q].token.attempt : q \in {x \in Requests : request[x].token # None}}
AtWork == {q \in Requests : request[q].pc # "idle" \/ thread[q].pc # "none"}

\* The states explored: dispatches of two authorized attempts that overlap,
\* and a legacy attempt beside an authorized one, a request at a
\* time, with completions that fail to commit.
Explored ==
    \/ Touched \cap Legacy = {} /\ failures = 0
    \/ Cardinality(Touched \ Legacy) <= 1 /\ Cardinality(AtWork) <= 1

=============================================================================
