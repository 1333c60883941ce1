--------------------------- MODULE MCCheckpoints ---------------------------
EXTENDS Checkpoints

Only == {{"delivered"}}
AllConfigs ==
    [strict : BOOLEAN, stateful : BOOLEAN, overlap : {FALSE}, ends : Only,
     updates : 0..1, faults : {2}, units : {3}]
    \cup [strict : {TRUE}, stateful : {TRUE}, overlap : {TRUE}, ends : Only,
          updates : 0..1, faults : {1}, units : {2}]
    \cup [strict : {TRUE}, stateful : BOOLEAN, overlap : {FALSE}, ends : {Ends},
          updates : {0}, faults : {2}, units : {3}]
=============================================================================
