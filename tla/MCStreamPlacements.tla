-------------------------- MODULE MCStreamPlacements --------------------------
(***************************************************************************)
(* StreamPlacements for TLC: each configuration names the commands the     *)
(* operator may give and the faults that may happen, and bounds both.      *)
(***************************************************************************)
EXTENDS StreamPlacements

Base == [placed |-> TRUE, count |-> 1, reports |-> FALSE, ops |-> 2, faults |-> 1,
         may |-> {"workercrash", "crash"}, commands |-> {"start"},
         digits |-> <<<<0>>, <<1>>>>, stateful |-> {}]

Legacy == [Base EXCEPT !.placed = FALSE]

AllConfigs == {
    \* commands against a reconciler that is recovering a slot
    [Base EXCEPT !.commands = {"start", "restart"}],
    [Base EXCEPT !.commands = {"start", "update"}],
    [Base EXCEPT !.commands = {"start", "stop", "delete"}, !.may = {"workercrash", "crash", "crashstart"},
                 !.faults = 2],
    \* several slots
    [Base EXCEPT !.count = 2, !.may = {"workercrash", "runend"}, !.ops = 1, !.faults = 2],
    [Base EXCEPT !.count = All, !.may = {"workercrash", "crash"}, !.ops = 1, !.faults = 2],
    \* statistics after a restart of the manager
    [Base EXCEPT !.count = 2, !.reports = TRUE, !.may = {"lost", "crash"}, !.ops = 1, !.faults = 2],
    [Base EXCEPT !.reports = TRUE, !.may = {"workercrash", "crashsend"}, !.ops = 1, !.faults = 2],
    \* ... of slots 1 and 10 of a stream of eleven
    [Base EXCEPT !.count = 2, !.digits = <<<<1>>, <<1, 0>>>>, !.reports = TRUE, !.ops = 1, !.faults = 3,
                 !.may = {"lost", "crash", "probefail"}],
    \* an update that makes a stream of two slots stateful
    [Base EXCEPT !.count = 2, !.stateful = {2}, !.commands = {"start", "update"}, !.may = {"runend"}],
    \* answers, stops and probes that fail
    [Base EXCEPT !.may = {"lost", "refused", "stopfail", "crash"}, !.commands = {"start", "update"}, !.ops = 2],
    [Base EXCEPT !.may = {"partition", "probefail"}, !.commands = {"start", "stop"}, !.faults = 2],
    [Base EXCEPT !.reports = TRUE, !.may = {"probefail", "crash"}, !.ops = 1, !.faults = 2],
    \* streams without placements
    [Legacy EXCEPT !.may = {"workercrash", "runend", "crash"}, !.commands = {"start", "stop", "delete"}],
    [Legacy EXCEPT !.reports = TRUE, !.may = {"workercrash"}, !.commands = {"start"}]
}
=============================================================================
