----------------------------- MODULE DiskService -----------------------------
(***************************************************************************)
(* What the disk manager gives any number of callers, and no more: every   *)
(* request put in is treated exactly once, in some order, and as many      *)
(* calls have returned as requests were treated, or fewer.  Whose request  *)
(* was treated does not matter to the caller that returns.                 *)
(***************************************************************************)
EXTENDS Integers, Sequences

CONSTANTS Clients, Program, Blocks, NULL, Disk0, Memory0

VARIABLES disk,     \* the blocks
          memory,   \* the callers' buffers
          pending,  \* requests put in and not treated
          inside,   \* the callers inside a call whose request is in
          call,     \* call[c]: index of the current or next call
          credit    \* treated requests less returned calls

vars == <<disk, memory, pending, inside, call, credit>>

Init ==
  /\ disk = Disk0
  /\ memory = Memory0
  /\ pending = {}
  /\ inside = {}
  /\ call = [c \in Clients |-> 1]
  /\ credit = 0

Request(c) == [task |-> c, ip |-> call[c]]

Submit(c) ==
  /\ c \notin inside
  /\ call[c] \in DOMAIN Program[c]
  /\ inside' = inside \cup {c}
  /\ pending' = pending \cup {Request(c)}
  /\ UNCHANGED <<disk, memory, call, credit>>

\* A request that names a block and a buffer moves the data; any other does nothing.
Move(p) ==
  /\ memory' = IF p.op = "read" /\ p.block \in Blocks /\ p.buffer # NULL
               THEN [memory EXCEPT ![p.buffer] = disk[p.block]] ELSE memory
  /\ disk' = IF p.op = "write" /\ p.block \in Blocks /\ p.buffer # NULL
             THEN [disk EXCEPT ![p.block] = memory[p.buffer]] ELSE disk

Treat(r) ==
  /\ Move(Program[r.task][r.ip])
  /\ pending' = pending \ {r}
  /\ credit' = credit + 1
  /\ UNCHANGED <<inside, call>>

Return(c) ==
  /\ c \in inside
  /\ credit > 0
  /\ credit' = credit - 1
  /\ inside' = inside \ {c}
  /\ call' = [call EXCEPT ![c] = @ + 1]
  /\ UNCHANGED <<disk, memory, pending>>

Next ==
  \/ \E c \in Clients : Submit(c) \/ Return(c)
  \/ \E r \in pending : Treat(r)

Spec == Init /\ [][Next]_vars

=============================================================================
