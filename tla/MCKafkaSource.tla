--------------------------- MODULE MCKafkaSource ---------------------------
EXTENDS KafkaSource

\* Payloads around a tombstone and around a compacted offset, at each place.
SomeLogs == {<<"value", "value", "tombstone">>, <<"value", "compacted", "value">>,
             <<"tombstone", "value", "value">>, <<"value", "tombstone", "compacted">>}

\* Logs that are all there at the start, and logs that grow from nothing.
AllStarts ==
    [log : [Partitions -> SomeLogs], end : [Partitions -> {LogEnd}], reset : {"earliest"}]
    \cup [log : [Partitions -> {<<"value", "value", "tombstone">>}], end : {None}, reset : Resets]
============================================================================
