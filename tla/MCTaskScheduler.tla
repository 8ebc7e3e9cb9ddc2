--------------------------- MODULE MCTaskScheduler ---------------------------
(***************************************************************************)
(* TaskScheduler with three tasks and a short range of priorities.         *)
(***************************************************************************)
EXTENDS TaskScheduler

MCMinPrio == -1

\* Both ends of the range, the middle, and one value beyond.
MCPrios == {-2, -1, 0, 2}

=============================================================================
