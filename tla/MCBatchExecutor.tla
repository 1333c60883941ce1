--------------------------- MODULE MCBatchExecutor ---------------------------
EXTENDS BatchExecutor

CONSTANTS s1, s2

\* on_error and whether a DLQ sink is configured; on_error=dlq requires one.
Policies == {<<"continue", TRUE>>, <<"continue", FALSE>>, <<"retry", TRUE>>,
             <<"retry", FALSE>>, <<"dlq", TRUE>>, <<"abort", FALSE>>}

Plain(p) ==
    [onError |-> p[1], dlq |-> p[2], src |-> "ack", units |-> 2, sinks |-> <<s1, s2>>, workers |-> 1,
     incremental |-> FALSE, strict |-> TRUE, breaker |-> FALSE, batchSize |-> 0,
     stops |-> FALSE, runs |-> 1, parts |-> 1,
     may |-> {"failed", "transform", "serialize"}]

\* One thread: whole files and record batches, with stops, batch_size, a breaker,
\* a condition that raises, two runs.
Sequential ==
    {[Plain(p) EXCEPT !.incremental = i, !.strict = s, !.breaker = b] :
        p \in Policies, i \in BOOLEAN, s \in BOOLEAN, b \in BOOLEAN}
    \cup {[Plain(p) EXCEPT !.incremental = TRUE, !.batchSize = 1, !.stops = TRUE] : p \in Policies}
    \cup {[Plain(p) EXCEPT !.src = "broker", !.stops = TRUE] : p \in Policies}
    \cup {[Plain(p) EXCEPT !.may = {"condition", "failed", "absorb"}] : p \in Policies}
    \cup {[Plain(p) EXCEPT !.src = src] : p \in Policies, src \in {"finalize", "read"}}
    \cup {[Plain(p) EXCEPT !.runs = 2] : p \in Policies}
    \cup {[Plain(p) EXCEPT !.incremental = i, !.parts = 2, !.units = 1, !.batchSize = n, !.breaker = b] :
            p \in Policies, i \in BOOLEAN, n \in {0, 3}, b \in BOOLEAN}
    \cup {[Plain(p) EXCEPT !.sinks = <<s2, s1>>, !.incremental = TRUE, !.may = {"condition", "absorb"}] :
            p \in Policies}

\* Two pool threads, and more chunks than the in-flight cap of four.
Parallel ==
    {[Plain(p) EXCEPT !.workers = 2, !.stops = TRUE] : p \in Policies}
    \cup {[Plain(p) EXCEPT !.workers = 2, !.src = "broker"] : p \in Policies}
    \cup {[Plain(p) EXCEPT !.workers = 2, !.src = "finalize"] : p \in Policies}
    \cup {[Plain(p) EXCEPT !.workers = 2, !.incremental = TRUE, !.parts = 2, !.sinks = <<s1>>,
                            !.batchSize = n] : p \in Policies, n \in {0, 3}}
    \cup {[Plain(p) EXCEPT !.workers = 2, !.units = 5, !.sinks = <<s1>>] :
            p \in {<<"continue", FALSE>>, <<"abort", FALSE>>}}

AllConfigs == Sequential \cup Parallel
===============================================================================
