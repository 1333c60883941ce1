-------------------------- MODULE MCStreamExecutor --------------------------
EXTENDS StreamExecutor

\* on_error and whether a DLQ sink is configured; on_error=dlq requires one.
Policies == {<<"continue", TRUE>>, <<"continue", FALSE>>, <<"retry", TRUE>>,
             <<"retry", FALSE>>, <<"dlq", TRUE>>, <<"abort", FALSE>>}

\* A failed DLQ write costs two failures, the sink's and the DLQ's.
Plain(p) ==
    [onError |-> p[1], dlq |-> p[2], src |-> "broker", threaded |-> FALSE, strict |-> TRUE,
     stops |-> TRUE, breaker |-> FALSE, faults |-> IF p[2] THEN 2 ELSE 1, rewinds |-> 1, keys |-> {1}]

AllConfigs ==
    {[Plain(p) EXCEPT !.strict = s] : p \in Policies, s \in BOOLEAN}
    \cup {[Plain(p) EXCEPT !.threaded = TRUE, !.faults = 1, !.rewinds = 0] : p \in Policies}
    \cup {[Plain(p) EXCEPT !.src = s, !.threaded = t, !.faults = 1, !.keys = Keys] :
            p \in Policies, s \in {"local", "sftp"}, t \in BOOLEAN}
    \cup {[Plain(p) EXCEPT !.breaker = TRUE, !.faults = 1, !.rewinds = 0] : p \in Policies}
    \cup {[Plain(p) EXCEPT !.keys = Keys, !.rewinds = 0, !.strict = FALSE] : p \in {<<"continue", FALSE>>, <<"abort", FALSE>>}}

\* The last record of the second key matches no sink.
Unrouted == {<<2, 2>>}
=============================================================================
