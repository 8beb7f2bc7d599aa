--------------------------- MODULE MCTaskScheduler --------------------------
(* TaskScheduler with a repeated and an everyday task that are strict, and  *)
(* an everyday task that is not, in time zones on both sides of UTC and in  *)
(* two whose clocks are changed at the time of a task, which then does not  *)
(* exist or exists twice.                                                   *)
EXTENDS TaskScheduler, TLC

CONSTANTS poll, backup, report

MCAt == (backup :> 3) @@ (report :> 0)

Fixed(offset) == [change |-> 0, before |-> offset, after |-> offset]

MCZones == {Fixed(-2), Fixed(0), Fixed(2),
            [change |-> 3, before |-> 0, after |-> 1],
            [change |-> 3, before |-> 1, after |-> 0]}
=============================================================================
