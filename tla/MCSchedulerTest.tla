--------------------------- MODULE MCSchedulerTest ---------------------------
(***************************************************************************)
(* src/pingpong-scheduler.c: main creates five tasks with the static       *)
(* priorities 0, 2, 4, 6 and 8 and joins them.  Each task prints and       *)
(* yields ten times, and ends when it is dispatched once more: started[t]  *)
(* counts its dispatches.                                                  *)
(***************************************************************************)
EXTENDS TaskScheduler, TLC

VARIABLE started

CONSTANTS Pang, Peng, Ping, Pong, Pung

MCMinPrio == -20

TestInit ==
  /\ readyQueue = <<Pang, Peng, Ping, Pong, Pung>>
  /\ taskExec = NoTask
  /\ iStaticPrio = Pang :> 0 @@ Peng :> 2 @@ Ping :> 4 @@ Pong :> 6 @@ Pung :> 8
  /\ iDinamPrio = [t \in Tasks |-> 0]
  /\ waits = [t \in Tasks |-> 0]
  /\ started = [t \in Tasks |-> 0]

TestNext ==
  \/ Dispatch /\ started' = [t \in Tasks |-> started[t] + (IF t = taskExec' THEN 1 ELSE 0)]
  \/ taskExec # NoTask /\ started[taskExec] <= 10 /\ Yield /\ UNCHANGED started
  \/ taskExec # NoTask /\ started[taskExec] = 11 /\ Suspend /\ UNCHANGED started

TestSpec == TestInit /\ [][TestNext]_<<vars, started>>

\* The expected output of the test (pingpong-scheduler.txt): the task with the best
\* static priority runs three times before the second best starts, and four times
\* before the third.
RunsInExpectedOrder ==
  /\ started[Peng] > 0 => started[Pang] >= 3
  /\ started[Ping] > 0 => started[Pang] >= 4

=============================================================================
